---------------------------- MODULE Spec2Model ----------------------------
(***************************************************************************)
(* A model of the CPR two-level preconditioner of opm-simulators           *)
(* (opm/autodiff/BlackoilAmg.hpp): the quasi-IMPES scaling, the            *)
(* one-component level transfer policy and the BlackoilAmg preconditioner. *)
(*                                                                         *)
(* Matrix and vector entries are doubles in the code; they are modelled as *)
(* integers, so every sum below is exact and rounding is out of scope.     *)
(*                                                                         *)
(* Three specifications share the variables:                               *)
(*   SpecScale    - scaleMatrixQuasiImpes as a function of its inputs      *)
(*   SpecTransfer - one OneComponentAggregationLevelTransferPolicy         *)
(*   Spec         - one BlackoilAmg instance driven by an outer solver     *)
(***************************************************************************)
EXTENDS Integers, Sequences, FiniteSets, TLC

(***************************************************************************)
(* Bounds of the model.                                                    *)
(***************************************************************************)
\* largest number of rows (cells) of a fine matrix
NumVertices == 2
\* defects and fine vectors are the multiples 0..MaxDefectScale of one
\* vector whose components are pairwise distinct
MaxDefectScale == 1
\* coarse solutions are the multiples 0..MaxCoarseScale of one vector
MaxCoarseScale == 1
\* the applies of one instance are counted up to MaxApplies ("or more")
MaxApplies == 2
\* the constant pressure defects of the round trip are 0 .. MaxConstant
MaxConstant == 2
\* cpr_max_ell_iter_ is one of 0 .. MaxEllIter
MaxEllIter == 1
\* the reduction handed to the coarse solver is one of 1 .. MaxReduction,
\* in units of 1e-8
MaxReduction == 2
\* a process issues at most MaxCalls calls of pre, apply and post
MaxCalls == 2
\* a transfer policy and its clones: at most MaxInstances instances
MaxInstances == 3
\* createCoarseLevelSystem is called at most MaxCreates times in all
MaxCreates == 2
\* criterion_.coarsenTarget() is one of 0 .. MaxCoarsenTarget
MaxCoarsenTarget == 2
\* a schedule has at most MaxSteps report steps
MaxSteps == 3
\* a report step is 1 .. MaxStepLength long
MaxStepLength == 3
\* a deck has at most MaxDeck keywords
MaxDeck == 3

(***************************************************************************)
(* Block::rows = Block::cols = Block::dimension: the number of unknowns    *)
(* per cell, a template parameter of the matrix type.                      *)
(***************************************************************************)
BlockSize == 2

\* AggregatesMap::ISOLATED and AggregatesMap::UNAGGREGATED: two sentinel
\* values of the vertex type that are no aggregate id (the two largest
\* values of the type in Dune; any two non-ids serve here).
ISOLATED == -1
UNAGGREGATED == -2

BlockIdx == 0 .. (BlockSize - 1)

\* "no object": the value of a pointer that is not set, of a result that
\* does not exist yet
None == [none |-> TRUE]

(***************************************************************************)
(* Inputs.  A block matrix (Dune::BCRSMatrix) is a record: N rows, M       *)
(* columns, and blocks, a function from the stored positions <<row, col>>  *)
(* to BlockSize x BlockSize blocks, block[i][j].                           *)
(***************************************************************************)
\* the block whose entries differ from each other and from every entry of
\* the blocks at the other positions
GenericBlock(r, c) ==
    [i \in BlockIdx |-> [j \in BlockIdx |->
        1 + j + BlockSize * i + BlockSize * BlockSize * (c + NumVertices * r)]]

ZeroBlock == [i \in BlockIdx |-> [j \in BlockIdx |-> 0]]

Diagonal(n) == {<<r, r>> : r \in 0 .. (n - 1)}

OffDiagonal(n) == {p \in (0 .. (n - 1)) \X (0 .. (n - 1)) : p[1] # p[2]}

\* The fine matrices of the model: square, 1..NumVertices rows, the diagonal
\* stored, any set of off-diagonal positions stored, every stored block the
\* generic one but for at most one stored block that is numerically zero.
FineMatrices ==
    UNION { UNION { { [N |-> n, M |-> n,
                      blocks |-> [p \in Diagonal(n) \cup off |->
                                    IF p = z THEN ZeroBlock
                                    ELSE GenericBlock(p[1], p[2])]]
                      : z \in Diagonal(n) \cup off \cup {<<n, n>>} }
                    : off \in SUBSET OffDiagonal(n) }
            : n \in 1 .. NumVertices }

\* fine vectors (Dune::BlockVector): one block of BlockSize values per row
FineVectors(n) ==
    { [vx \in 0 .. (n - 1) |-> [i \in BlockIdx |-> s * (1 + i + BlockSize * vx)]]
      : s \in 0 .. MaxDefectScale }

ZeroFine(n) == [vx \in 0 .. (n - 1) |-> [i \in BlockIdx |-> 0]]

\* coarse vectors: one value per coarse row
CoarseVectors(m) ==
    { [a \in 0 .. (m - 1) |-> s * (a + 1)] : s \in 0 .. MaxCoarseScale }

ZeroCoarse(m) == [a \in 0 .. (m - 1) |-> 0]

\* what a coarse solve may leave in its right-hand side (the residual)
Residuals(m) == {ZeroCoarse(m), [a \in 0 .. (m - 1) |-> 0 - (a + 1)]}

\* what one smoothing step may return
SmootherOutputs(n) ==
    {[vx \in 0 .. (n - 1) |-> [i \in BlockIdx |-> 0]],
     [vx \in 0 .. (n - 1) |-> [i \in BlockIdx |-> 1 + vx + NumVertices * i]]}

\* the sum of f over the finite set S
RECURSIVE SumOver(_, _)
SumOver(S, f) ==
    IF S = {} THEN 0
    ELSE LET x == CHOOSE y \in S : TRUE
         IN f[x] + SumOver(S \ {x}, f)

VARIABLES
    \* --- the caller's data and the template parameter
    fineMatrix,      \* the matrix of the fine operator handed in
    COMPONENT_INDEX, \* the pressure index inside a block
    \* --- quasi-IMPES scaling
    scaledMatrix,    \* the result of scaleMatrixQuasiImpes (None before)
    rescaledMatrix,  \* SpecScale: the result of scaling scaledMatrix again
    \* --- OneComponentAggregationLevelTransferPolicy
    cpr_pressure_aggregation_,
    policyState,     \* "Uninitialized" | "Ready"
    levelOperator,   \* the matrix createCoarseLevelSystem was given
    aggregatesMap_,
    coarseLevelMatrix_,
    lhs_,
    rhs_,
    prolongDamp_,
    coarseLevelCommunication_, \* the shared pointer: its object, its deleter
    operator_,       \* the coarse operator: the matrix and communication it wraps
    fine,            \* SpecTransfer: the caller's fine vector
    fineIn,          \* SpecTransfer: the fine vector as the last move got it
    lastOp,          \* SpecTransfer: the operation that ran last
    \* --- BlackoilAmg
    phase,           \* "none" | "constructed"
    d,               \* the caller's defect of the last apply, after it
    dGiven,          \* the defect as the caller handed it to the last apply
    scaledD,         \* the defect the last apply gave the two-level method
    v,               \* the correction the last apply returned
    trace,           \* the steps of the last apply, in order
    applyCalls,      \* applies so far, counted up to MaxApplies
    nScaleMatrix,    \* runs of scaleMatrixQuasiImpes for the instance
    nCreateCoarse,   \* runs of createCoarseLevelSystem for the instance
    \* --- the build and the template arguments (SpecSolver)
    DUNE_ISTL_2_6,   \* DUNE_VERSION_NEWER(DUNE_ISTL, 2, 6)
    Communication,   \* the type of the communication object
    Operator_category, \* the category of the fine operator's type
    \* --- OneStepAMGCoarseSolverPolicy::AMGInverseOperator (SpecSolver)
    param_,          \* the CPRParameter the solver reads
    amg_,            \* the AMG hierarchy of the coarse solver, or NullPtr
    smoother_,       \* the smoother of the coarse solver, or NullPtr
    op_,             \* the coarse operator: a 1 x 1 matrix, its entry
    coarseCall,      \* the last apply of the coarse solver (None before)
    categoryAnswer,  \* what category() returned last (None before)
    \* --- several processes sharing one communication (SpecProlong,
    \* --- SpecCollective)
    procAt,          \* per process: where it is in its call
    localFine,       \* per process: pressure component of its fine vector
    localLhs,        \* per process: the coarse solution it prolongs
    ownerSent,       \* per process: the owner values it has sent
    program,         \* per process: the calls it issues, in order
    callsDone,       \* per process: the calls that have returned
    \* --- the transfer policy, its clones and the communication objects
    \* --- (SpecOwnership)
    instState,       \* per policy instance: "unborn" | "live" | "destroyed"
    held,            \* per instance: the control block its
                     \* coarseLevelCommunication_ shares, 0 if it is empty
    useCount,        \* per control block: the shared pointers sharing it
    commAlive,       \* per communication object: "unbuilt" | "alive" | "destroyed"
    nCreated,        \* calls of createCoarseLevelSystem so far
    \* --- createCoarseLevelSystem statement by statement (SpecSetup)
    setupArgs,       \* fine rows, aggregates coarsen returns, coarsenTarget()
    setupPc,         \* the statements of the call run so far
    stepsDone,       \* their names
    fineLookup,      \* communication_ holds a global lookup
    coarseLookup,    \* coarseLevelCommunication_ holds a global lookup
    fineLookupCalls, \* buildGlobalLookup and freeGlobalLookup calls on
                     \* communication_, counted
    \* --- SimulatorTimer (SpecTimer, SpecRun)
    timesteps_,      \* the lengths of the report steps
    current_step_,
    current_time_,
    total_time_,
    timerOp,         \* the operation of the timer that ran last
    \* --- SimulatorFullyImplicitBlackoilEbos::run (SpecRun)
    runPc,           \* where run is
    runStart,        \* the report step the timer was at when run was called
    iterations,      \* iterations of the main loop so far
    runLog,          \* the solves and writes of run, each with its report step
    report,          \* the report run returns (None before)
    \* --- MissingFeatures::checkKeywords (SpecKeywords)
    deck,            \* the names of the keywords of the deck, in order
    deckIdx,         \* the keywords checked so far
    warnings,        \* the "is not supported by flow" warnings: the index
                     \* and the name of the keyword of each, in order
    \* --- one fine operator under two communications (SpecEquivalence)
    eqInput,         \* the fine operator, the parameters and the aggregates
    eqPc,            \* "none" | "start" | "built" | "applied"
    seqSide,         \* what the policy over SequentialInformation built
    parSide          \* what the policy over the overlapping communication built

scaleVars == <<fineMatrix, COMPONENT_INDEX, scaledMatrix, rescaledMatrix>>

policyVars == <<cpr_pressure_aggregation_, policyState,
                   coarseLevelCommunication_, operator_, levelOperator,
                aggregatesMap_, coarseLevelMatrix_, lhs_, rhs_, prolongDamp_,
                fine, fineIn, lastOp>>

amgVars == <<phase, d, dGiven, scaledD, v, trace, applyCalls, nScaleMatrix,
             nCreateCoarse>>

solverVars == <<DUNE_ISTL_2_6, Communication, Operator_category, param_,
                amg_, smoother_, op_,
                coarseCall, categoryAnswer>>

parVars == <<procAt, localFine, localLhs, ownerSent, program, callsDone>>

\* the variables of the specifications further down
ownVars == <<instState, held, useCount, commAlive, nCreated>>

\* the variables of the specifications in the last part
stepVars == <<setupArgs, setupPc, stepsDone, fineLookup, coarseLookup,
              fineLookupCalls>>

timerVars == <<timesteps_, current_step_, current_time_, total_time_, timerOp>>

runVars == <<runPc, runStart, iterations, runLog, report>>

keywordVars == <<deck, deckIdx, warnings>>

equivVars == <<eqInput, eqPc, seqSide, parSide>>

laterVars == <<ownVars, stepVars, timerVars, runVars, keywordVars, equivVars>>

extVars == <<solverVars, parVars, laterVars>>

vars == <<scaleVars, policyVars, amgVars, extVars>>

\* a pointer that holds no object
NullPtr == "nullptr"

\* no coarse solver, no build chosen
SolverIdle ==
    /\ DUNE_ISTL_2_6 = TRUE
    /\ Communication = "SequentialInformation"
    /\ Operator_category = "sequential"
    /\ param_ = None
    /\ amg_ = NullPtr
    /\ smoother_ = NullPtr
    /\ op_ = None
    /\ coarseCall = None
    /\ categoryAnswer = None

\* one process only
ParIdle ==
    /\ procAt = << >>
    /\ localFine = << >>
    /\ localLhs = << >>
    /\ ownerSent = << >>
    /\ program = << >>
    /\ callsDone = << >>

\* no policy instance followed
OwnIdle ==
    /\ instState = << >>
    /\ held = << >>
    /\ useCount = << >>
    /\ commAlive = << >>
    /\ nCreated = 0

\* no call of createCoarseLevelSystem followed statement by statement
StepIdle ==
    /\ setupArgs = None
    /\ setupPc = 0
    /\ stepsDone = {}
    /\ fineLookup = FALSE
    /\ coarseLookup = FALSE
    /\ fineLookupCalls = None

\* no timer, no run
TimerIdle ==
    /\ timesteps_ = << >>
    /\ current_step_ = 0
    /\ current_time_ = 0
    /\ total_time_ = 0
    /\ timerOp = "none"

RunIdle ==
    /\ runPc = "none"
    /\ runStart = 0
    /\ iterations = 0
    /\ runLog = << >>
    /\ report = None

\* no deck
KeywordIdle ==
    /\ deck = << >>
    /\ deckIdx = 0
    /\ warnings = << >>

\* no comparison of communications
EquivIdle ==
    /\ eqInput = << >>
    /\ eqPc = "none"
    /\ seqSide = << >>
    /\ parSide = << >>

LaterIdle == OwnIdle /\ StepIdle /\ TimerIdle /\ RunIdle /\ KeywordIdle /\ EquivIdle

ExtIdle == SolverIdle /\ ParIdle /\ LaterIdle

\* no BlackoilAmg instance
AmgIdle ==
    /\ phase = "none"
    /\ d = << >>
    /\ dGiven = << >>
    /\ scaledD = << >>
    /\ v = << >>
    /\ trace = << >>
    /\ applyCalls = 0
    /\ nScaleMatrix = 0
    /\ nCreateCoarse = 0

(***************************************************************************)
(* Quasi-IMPES scaling.                                                    *)
(***************************************************************************)
\* rows i, i+1, ... of the loop over the rows of one block:
\*   if (i != pressureIndex) for j: block[pressureIndex][j] += block[i][j]
RECURSIVE scaleBlockFrom(_, _, _)
scaleBlockFrom(block, pressureIndex, i) ==
    IF i >= BlockSize THEN block
    ELSE IF i # pressureIndex
         THEN scaleBlockFrom(
                  [block EXCEPT ![pressureIndex] =
                      [j \in BlockIdx |-> block[pressureIndex][j] + block[i][j]]],
                  pressureIndex, i + 1)
         ELSE scaleBlockFrom(block, pressureIndex, i + 1)

\* mutant: the row is assigned instead of added
scaleMatrixQuasiImpes_assign(op, pressureIndex) ==
    [op EXCEPT !.blocks =
        [p \in DOMAIN op.blocks |->
            [op.blocks[p] EXCEPT ![pressureIndex] =
                op.blocks[p][(pressureIndex + 1) % BlockSize]]]]

\* mutant: blocks that are numerically zero are dropped from the copy
scaleMatrixQuasiImpes_dropZero(op, pressureIndex) ==
    [op EXCEPT !.blocks =
        [p \in {q \in DOMAIN op.blocks : op.blocks[q] # ZeroBlock} |->
            scaleBlockFrom(op.blocks[p], pressureIndex, 0)]]

\* mutant: the loop over the rows of a block starts at row 1
scaleMatrixQuasiImpes_fromRow1(op, pressureIndex) ==
    [op EXCEPT !.blocks =
        [p \in DOMAIN op.blocks |-> scaleBlockFrom(op.blocks[p], pressureIndex, 1)]]

\* The matrix of the returned operator: a copy of op.getmat() in which every
\* stored block has had the row loop applied.
scaleMatrixQuasiImpes(op, pressureIndex) ==
    [op EXCEPT !.blocks =
        [p \in DOMAIN op.blocks |-> scaleBlockFrom(op.blocks[p], pressureIndex, 0)]]

(***************************************************************************)
(* Aggregation (Dune::Amg, called by createCoarseLevelSystem).             *)
(***************************************************************************)
\* std::vector<bool> excluded(fineOperator.getmat().N(), false)
excluded_allTrue(n) == [vx \in 0 .. (n - 1) |-> TRUE]

excluded(n) == [vx \in 0 .. (n - 1) |-> FALSE]

\* the vertices of S reachable from R along stored off-diagonal positions,
\* in either direction
RECURSIVE Reach(_, _, _)
Reach(S, pattern, R) ==
    LET R2 == R \cup {y \in S : \E x \in R : <<x, y>> \in pattern
                                             \/ <<y, x>> \in pattern}
    IN IF R2 = R THEN R ELSE Reach(S, pattern, R2)

Connected(S, pattern) ==
    S = {} \/ Reach(S, pattern, {CHOOSE x \in S : TRUE}) = S

\* AggregatesMap::buildAggregates: what the aggregation may return for a
\* matrix.  Every vertex of the graph (every vertex that is not excluded)
\* is given an aggregate id or ISOLATED, a vertex outside the graph stays
\* UNAGGREGATED; the ids are 0 .. noAggregates-1, each used; the vertices
\* of one aggregate are connected in the matrix graph.  Which of these maps
\* is built depends on the strength criterion: any of them may be.
buildAggregates(mat, excl) ==
    LET V == 0 .. (mat.N - 1)
        ids(a) == {a[vx] : vx \in V} \ {ISOLATED, UNAGGREGATED}
    IN { [map |-> a, noAggregates |-> Cardinality(ids(a))] :
         a \in { b \in [V -> {ISOLATED, UNAGGREGATED} \cup V] :
                   /\ \A vx \in V : excl[vx] <=> b[vx] = UNAGGREGATED
                   /\ ids(b) = 0 .. (Cardinality(ids(b)) - 1)
                   /\ \A k \in ids(b) :
                          Connected({vx \in V : b[vx] = k}, DOMAIN mat.blocks) } }

\* IndicesCoarsener::coarsen: the number of coarse indices, which for one
\* process is the number of aggregates handed in
coarsen(noAggregates) == noAggregates

\* buildCoarseSparseMatrix: the coarse sparsity pattern.  Isolated vertices
\* are marked visited, so they start no coarse row; ConnectivityConstructor
\* ::examine then gives the row of each aggregate its own index and the
\* aggregate of every non-isolated neighbour of its vertices.
buildCoarseSparseMatrix(mat, aggregates) ==
    { <<aggregates[p[1]], aggregates[p[2]]>> :
        p \in { q \in DOMAIN mat.blocks : /\ aggregates[q[1]] # ISOLATED
                                          /\ aggregates[q[2]] # ISOLATED } }

(***************************************************************************)
(* OneComponentAggregationLevelTransferPolicy.  A coarse matrix is a       *)
(* record: N rows, M columns, entries from the stored positions to scalars.*)
(***************************************************************************)
\* mutant: the entry is assigned instead of accumulated
RECURSIVE calculateCoarseEntries_assign(_, _, _, _, _)
calculateCoarseEntries_assign(coarse, fineMat, aggregates, ci, k) ==
    IF k >= fineMat.N * fineMat.M THEN coarse
    ELSE LET row == k \div fineMat.M
             col == k % fineMat.M
         IN IF /\ <<row, col>> \in DOMAIN fineMat.blocks
               /\ aggregates[row] # ISOLATED
               /\ aggregates[col] # ISOLATED
            THEN calculateCoarseEntries_assign(
                     [coarse EXCEPT !.entries[<<aggregates[row], aggregates[col]>>] =
                          fineMat.blocks[<<row, col>>][ci][ci]],
                     fineMat, aggregates, ci, k + 1)
            ELSE calculateCoarseEntries_assign(coarse, fineMat, aggregates, ci, k + 1)

\* calculateCoarseEntries from the k-th position on, the positions counted
\* row by row (the code walks the rows and, in each, the stored entries in
\* the order of their columns): an entry whose row and column both lie in
\* an aggregate is added to coarse[aggregate(row)][aggregate(col)].  The
\* caller starts it at k = 0 on a matrix whose entries are all 0.
RECURSIVE calculateCoarseEntries(_, _, _, _, _)
calculateCoarseEntries(coarse, fineMat, aggregates, ci, k) ==
    IF k >= fineMat.N * fineMat.M THEN coarse
    ELSE LET row == k \div fineMat.M
             col == k % fineMat.M
         IN IF /\ <<row, col>> \in DOMAIN fineMat.blocks
               /\ aggregates[row] # ISOLATED
               /\ aggregates[col] # ISOLATED
            THEN calculateCoarseEntries(
                     [coarse EXCEPT !.entries[<<aggregates[row], aggregates[col]>>] =
                          @ + fineMat.blocks[<<row, col>>][ci][ci]],
                     fineMat, aggregates, ci, k + 1)
            ELSE calculateCoarseEntries(coarse, fineMat, aggregates, ci, k + 1)

\* mutant: the coarse matrix is given the dimension of the fine matrix
aggregationCoarseMatrix_fineDim(fineMat, agg, ci) ==
    calculateCoarseEntries(
        [N |-> fineMat.N, M |-> fineMat.M,
         entries |-> [p \in buildCoarseSparseMatrix(fineMat, agg.map) |-> 0]],
        fineMat, agg.map, ci, 0)

\* createCoarseLevelSystem, aggregation branch: the coarse matrix for the
\* result agg of buildAggregates: aggregates x aggregates, the pattern of
\* buildCoarseSparseMatrix, the entries of calculateCoarseEntries
aggregationCoarseMatrix(fineMat, agg, ci) ==
    calculateCoarseEntries(
        [N |-> coarsen(agg.noAggregates), M |-> coarsen(agg.noAggregates),
         entries |-> [p \in buildCoarseSparseMatrix(fineMat, agg.map) |-> 0]],
        fineMat, agg.map, ci, 0)

\* the columns stored in row r of a pattern, and a set of indices as the
\* sequence an iterator walks: in increasing order
RowCols(pattern, r) == {p[2] : p \in {q \in pattern : q[1] = r}}

RECURSIVE Ascending(_)
Ascending(S) ==
    IF S = {} THEN << >>
    ELSE LET m == CHOOSE x \in S : \A y \in S : x <= y
         IN <<m>> \o Ascending(S \ {m})

IndexOf(seq, x) == CHOOSE k \in 1 .. Len(seq) : seq[k] = x

\* the pattern the direct branch creates: createIter.insert(col.index()) for
\* every stored column of every fine row
directPattern(fineLevelMatrix) ==
    { p \in (0 .. (fineLevelMatrix.N - 1)) \X (0 .. (fineLevelMatrix.M - 1)) :
        p[2] \in RowCols(DOMAIN fineLevelMatrix.blocks, p[1]) }

\* mutant: the first component of the block is extracted
directCoarseMatrix_component0(fineLevelMatrix, ci) ==
    [N |-> fineLevelMatrix.N, M |-> fineLevelMatrix.M,
     entries |-> [p \in directPattern(fineLevelMatrix) |->
                     fineLevelMatrix.blocks[p][0][0]]]

\* createCoarseLevelSystem, direct branch: an N x M matrix with the pattern
\* above; then the fine and the coarse row are walked side by side and the
\* k-th coarse entry of the row is given the value of the k-th fine block,
\* *coarseCol = (*col)[COMPONENT_INDEX][COMPONENT_INDEX]
directCoarseMatrix(fineLevelMatrix, ci) ==
    LET pattern == directPattern(fineLevelMatrix)
        fineCols(r) == Ascending(RowCols(DOMAIN fineLevelMatrix.blocks, r))
        coarseCols(r) == Ascending(RowCols(pattern, r))
    IN [N |-> fineLevelMatrix.N, M |-> fineLevelMatrix.M,
        entries |-> [p \in pattern |->
            fineLevelMatrix.blocks[
                <<p[1], fineCols(p[1])[IndexOf(coarseCols(p[1]), p[2])]>>][ci][ci]]]

\* mutant: the buffers get the size of the fine level
coarseBufferSizes_fine(fineOperator, coarseMatrix) ==
    [lhs |-> fineOperator.M, rhs |-> fineOperator.N]

\* lhs_.resize(coarseLevelMatrix_->M()); rhs_.resize(coarseLevelMatrix_->N())
coarseBufferSizes(fineOperator, coarseMatrix) ==
    [lhs |-> coarseMatrix.M, rhs |-> coarseMatrix.N]

\* the communication objects: the caller's, *communication_, and the one
\* the aggregation branch constructs
FineCommunication == "communication_"

CoarseCommunication == "constructed communication"

\* mutant: the direct branch hands *communication_ to an owning pointer
coarseCommunicationOf_owning(aggregation) ==
    IF aggregation
    THEN [object |-> CoarseCommunication, deleter |-> "delete"]
    ELSE [object |-> FineCommunication, deleter |-> "delete"]

\* coarseLevelCommunication_ after createCoarseLevelSystem: a shared pointer
\* to a newly constructed communication (aggregation), or to *communication_
\* with a deleter that does nothing (direct)
coarseCommunicationOf(aggregation) ==
    IF aggregation
    THEN [object |-> CoarseCommunication, deleter |-> "delete"]
    ELSE [object |-> FineCommunication, deleter |-> "none"]

\* createCoarseLevelSystem(fineOperator) on the policy's members.  The
\* resize of lhs_ and rhs_ sets their length and leaves their values
\* unspecified.
createCoarseLevelSystem(fineOperator) ==
    /\ prolongDamp_' = 1
    /\ levelOperator' = fineOperator
    /\ IF cpr_pressure_aggregation_
       THEN \E agg \in buildAggregates(fineOperator, excluded(fineOperator.N)) :
                /\ aggregatesMap_' = agg.map
                /\ coarseLevelMatrix_' =
                       aggregationCoarseMatrix(fineOperator, agg, COMPONENT_INDEX)
       ELSE /\ aggregatesMap_' = aggregatesMap_
            /\ coarseLevelMatrix_' = directCoarseMatrix(fineOperator, COMPONENT_INDEX)
    /\ coarseLevelCommunication_' = coarseCommunicationOf(cpr_pressure_aggregation_)
    /\ lhs_' \in CoarseVectors(coarseBufferSizes(fineOperator, coarseLevelMatrix_').lhs)
    /\ rhs_' \in CoarseVectors(coarseBufferSizes(fineOperator, coarseLevelMatrix_').rhs)
    /\ operator_' = [mat |-> coarseLevelMatrix_',
                     comm |-> coarseLevelCommunication_'.object]
    /\ policyState' = "Ready"

\* mutant: the value is assigned to the aggregate's entry, not added
RECURSIVE restrictAggregated_assign(_, _, _, _, _)
restrictAggregated_assign(rhs, fineVec, aggregates, ci, k) ==
    IF k >= Cardinality(DOMAIN fineVec) THEN rhs
    ELSE IF aggregates[k] # ISOLATED
         THEN restrictAggregated_assign(
                  [rhs EXCEPT ![aggregates[k]] = fineVec[k][ci]],
                  fineVec, aggregates, ci, k + 1)
         ELSE restrictAggregated_assign(rhs, fineVec, aggregates, ci, k + 1)

\* moveToCoarseLevel, aggregation branch, from block k on:
\*   if (aggregate(k) != ISOLATED) rhs_[aggregate(k)] += fine[k][COMPONENT_INDEX]
RECURSIVE restrictAggregated(_, _, _, _, _)
restrictAggregated(rhs, fineVec, aggregates, ci, k) ==
    IF k >= Cardinality(DOMAIN fineVec) THEN rhs
    ELSE IF aggregates[k] # ISOLATED
         THEN restrictAggregated(
                  [rhs EXCEPT ![aggregates[k]] = @ + fineVec[k][ci]],
                  fineVec, aggregates, ci, k + 1)
         ELSE restrictAggregated(rhs, fineVec, aggregates, ci, k + 1)

\* mutant: rhs_ is not set to zero first
moveToCoarseLevelRhs_noZero(rhs, fineVec, aggregation, aggregates, ci) ==
    IF aggregation
    THEN restrictAggregated(rhs, fineVec, aggregates, ci, 0)
    ELSE [a \in DOMAIN rhs |->
             IF a \in DOMAIN fineVec THEN fineVec[a][ci] ELSE 0]

\* the value of rhs_ after moveToCoarseLevel(fineVec): set to zero, then
\* filled per branch (direct branch: rhs_[k] = fine[k][COMPONENT_INDEX])
moveToCoarseLevelRhs(rhs, fineVec, aggregation, aggregates, ci) ==
    IF aggregation
    THEN restrictAggregated([a \in DOMAIN rhs |-> 0], fineVec, aggregates, ci, 0)
    ELSE [a \in DOMAIN rhs |->
             IF a \in DOMAIN fineVec THEN fineVec[a][ci] ELSE 0]

\* the value of lhs_ after moveToFineLevel: lhs_ *= prolongDamp_ in the
\* aggregation branch, untouched in the direct branch
moveToFineLevelLhs(lhs, aggregation, damp) ==
    IF aggregation THEN [a \in DOMAIN lhs |-> lhs[a] * damp] ELSE lhs

\* mutant: an ISOLATED vertex is given the correction of the first aggregate
moveToFineLevelFine_isolatedToo(lhs, fineVec, aggregation, aggregates, damp, ci) ==
    IF aggregation
    THEN [k \in DOMAIN fineVec |->
             IF aggregates[k] # ISOLATED
             THEN [fineVec[k] EXCEPT ![ci] = @ + (lhs[aggregates[k]] * damp)]
             ELSE IF 0 \in DOMAIN lhs
                  THEN [fineVec[k] EXCEPT ![ci] = @ + (lhs[0] * damp)]
                  ELSE fineVec[k]]
    ELSE [k \in DOMAIN fineVec |-> [fineVec[k] EXCEPT ![ci] = lhs[k]]]

\* the fine vector after moveToFineLevel(fineVec): in the aggregation
\* branch the damped coarse value of its aggregate is added to the pressure
\* component of every vertex that is not ISOLATED; in the direct branch the
\* pressure component is assigned lhs_[k]
moveToFineLevelFine(lhs, fineVec, aggregation, aggregates, damp, ci) ==
    IF aggregation
    THEN [k \in DOMAIN fineVec |->
             IF aggregates[k] # ISOLATED
             THEN [fineVec[k] EXCEPT ![ci] = @ + (lhs[aggregates[k]] * damp)]
             ELSE fineVec[k]]
    ELSE [k \in DOMAIN fineVec |-> [fineVec[k] EXCEPT ![ci] = lhs[k]]]

(***************************************************************************)
(* SpecTransfer: one transfer policy.  {Uninitialized} ->                  *)
(* createCoarseLevelSystem -> {Ready}, then moveToCoarseLevel, the coarse  *)
(* solve of the caller and moveToFineLevel in any order and number.        *)
(***************************************************************************)
ScaleIdle ==
    /\ fineMatrix = None
    /\ scaledMatrix = None
    /\ rescaledMatrix = None

\* the constructor: criterion_, communication_ and
\* cpr_pressure_aggregation_ are set, nothing else is built
InitTransfer ==
    /\ ScaleIdle
    /\ AmgIdle
    /\ ExtIdle
    /\ COMPONENT_INDEX \in BlockIdx
    /\ cpr_pressure_aggregation_ \in BOOLEAN
    /\ policyState = "Uninitialized"
    /\ levelOperator = None
    /\ aggregatesMap_ = None
    /\ coarseLevelMatrix_ = None
    /\ lhs_ = << >>
    /\ rhs_ = << >>
    /\ prolongDamp_ = 0
    /\ coarseLevelCommunication_ = None
    /\ operator_ = None
    /\ fine = << >>
    /\ fineIn = << >>
    /\ lastOp = "none"

\* the fine operators of SpecTransfer: those of FineMatrices in which no
\* block but the one at <<0, 0>> is zero
TransferMatrices ==
    { m \in FineMatrices :
        \A p \in DOMAIN m.blocks : m.blocks[p] = ZeroBlock => p = <<0, 0>> }

CreateCoarseLevelSystem ==
    /\ policyState = "Uninitialized"
    /\ \E fineOperator \in TransferMatrices : createCoarseLevelSystem(fineOperator)
    /\ lastOp' = "createCoarseLevelSystem"
    /\ UNCHANGED <<scaleVars, amgVars, extVars, cpr_pressure_aggregation_, fine, fineIn>>

MoveToCoarseLevel ==
    /\ policyState = "Ready"
    /\ \E f \in FineVectors(levelOperator.N) :
           /\ fine' = f
           /\ fineIn' = f
           /\ rhs_' = moveToCoarseLevelRhs(rhs_, f, cpr_pressure_aggregation_,
                                           aggregatesMap_, COMPONENT_INDEX)
    /\ lhs_' = ZeroCoarse(Cardinality(DOMAIN lhs_))
    /\ lastOp' = "moveToCoarseLevel"
    /\ UNCHANGED <<scaleVars, amgVars, extVars, cpr_pressure_aggregation_, policyState,
                   coarseLevelCommunication_, operator_,
                   levelOperator, aggregatesMap_, coarseLevelMatrix_,
                   prolongDamp_>>

\* the coarse solve of the caller, between the two moves: the solver
\* writes its solution into getCoarseLevelLhs() and leaves its residual in
\* getCoarseLevelRhs()
CoarseSolve ==
    /\ policyState = "Ready"
    /\ lhs_' \in CoarseVectors(Cardinality(DOMAIN lhs_))
    /\ rhs_' \in Residuals(Cardinality(DOMAIN rhs_))
    /\ lastOp' = "coarseSolve"
    /\ UNCHANGED <<scaleVars, amgVars, extVars, cpr_pressure_aggregation_, policyState,
                   coarseLevelCommunication_, operator_,
                   levelOperator, aggregatesMap_, coarseLevelMatrix_,
                   prolongDamp_, fine, fineIn>>

MoveToFineLevel ==
    /\ policyState = "Ready"
    /\ \E f \in FineVectors(levelOperator.N) :
           /\ fineIn' = f
           /\ fine' = moveToFineLevelFine(lhs_, f, cpr_pressure_aggregation_,
                                          aggregatesMap_, prolongDamp_,
                                          COMPONENT_INDEX)
    /\ lastOp' = "moveToFineLevel"
    /\ lhs_' = moveToFineLevelLhs(lhs_, cpr_pressure_aggregation_, prolongDamp_)
    /\ UNCHANGED <<scaleVars, amgVars, extVars, cpr_pressure_aggregation_, policyState,
                   coarseLevelCommunication_, operator_,
                   levelOperator, aggregatesMap_, coarseLevelMatrix_,
                   rhs_, prolongDamp_>>

NextTransfer ==
    \/ CreateCoarseLevelSystem
    \/ MoveToCoarseLevel
    \/ CoarseSolve
    \/ MoveToFineLevel

SpecTransfer == InitTransfer /\ [][NextTransfer]_vars

(***************************************************************************)
(* SpecRoundTrip: restriction and prolongation as one round trip.  After   *)
(* createCoarseLevelSystem a defect whose pressure component is the same   *)
(* constant at every vertex is moved to the coarse level; the coarse       *)
(* solution is set to the restricted right-hand side; it is moved to a     *)
(* fine vector that is zero.  d keeps the defect.                          *)
(***************************************************************************)
\* fine vectors whose pressure component is c in every block
ConstantPressure(n, ci, c) ==
    [vx \in 0 .. (n - 1) |-> [i \in BlockIdx |->
        IF i = ci THEN c ELSE 1 + i + BlockSize * vx]]

RestrictConstant ==
    /\ policyState = "Ready"
    /\ lastOp = "createCoarseLevelSystem"
    /\ \E c \in 0 .. MaxConstant :
           LET f == ConstantPressure(levelOperator.N, COMPONENT_INDEX, c)
           IN /\ d' = f
              /\ fine' = f
              /\ fineIn' = f
              /\ rhs_' = moveToCoarseLevelRhs(rhs_, f, cpr_pressure_aggregation_,
                                              aggregatesMap_, COMPONENT_INDEX)
    /\ lhs_' = ZeroCoarse(Cardinality(DOMAIN lhs_))
    /\ lastOp' = "moveToCoarseLevel"
    /\ UNCHANGED <<scaleVars, extVars, cpr_pressure_aggregation_, policyState,
                   coarseLevelCommunication_, operator_,
                   levelOperator, aggregatesMap_, coarseLevelMatrix_,
                   prolongDamp_, phase, dGiven, scaledD, v, trace, applyCalls,
                   nScaleMatrix, nCreateCoarse>>

\* coarse solution = restricted value
IdentitySolve ==
    /\ policyState = "Ready"
    /\ lastOp = "moveToCoarseLevel"
    /\ lhs_' = rhs_
    /\ lastOp' = "coarseSolve"
    /\ UNCHANGED <<scaleVars, amgVars, extVars, cpr_pressure_aggregation_, policyState,
                   coarseLevelCommunication_, operator_,
                   levelOperator, aggregatesMap_, coarseLevelMatrix_, rhs_,
                   prolongDamp_, fine, fineIn>>

ProlongToZero ==
    /\ policyState = "Ready"
    /\ lastOp = "coarseSolve"
    /\ fineIn' = ZeroFine(levelOperator.N)
    /\ fine' = moveToFineLevelFine(lhs_, ZeroFine(levelOperator.N),
                                   cpr_pressure_aggregation_, aggregatesMap_,
                                   prolongDamp_, COMPONENT_INDEX)
    /\ lhs_' = moveToFineLevelLhs(lhs_, cpr_pressure_aggregation_, prolongDamp_)
    /\ lastOp' = "moveToFineLevel"
    /\ UNCHANGED <<scaleVars, amgVars, extVars, cpr_pressure_aggregation_, policyState,
                   coarseLevelCommunication_, operator_,
                   levelOperator, aggregatesMap_, coarseLevelMatrix_, rhs_,
                   prolongDamp_>>

NextRoundTrip ==
    \/ CreateCoarseLevelSystem
    \/ RestrictConstant
    \/ IdentitySolve
    \/ ProlongToZero

SpecRoundTrip == InitTransfer /\ [][NextRoundTrip]_vars

(***************************************************************************)
(* SpecScale: scaleMatrixQuasiImpes applied to an operator, and applied    *)
(* again to its own result.                                                *)
(***************************************************************************)
PolicyIdle ==
    /\ cpr_pressure_aggregation_ = FALSE
    /\ policyState = "Uninitialized"
    /\ levelOperator = None
    /\ aggregatesMap_ = None
    /\ coarseLevelMatrix_ = None
    /\ lhs_ = << >>
    /\ rhs_ = << >>
    /\ prolongDamp_ = 0
    /\ coarseLevelCommunication_ = None
    /\ operator_ = None
    /\ fine = << >>
    /\ fineIn = << >>
    /\ lastOp = "none"

InitScale ==
    /\ AmgIdle
    /\ ExtIdle
    /\ fineMatrix \in FineMatrices
    /\ COMPONENT_INDEX \in BlockIdx
    /\ scaledMatrix = None
    /\ rescaledMatrix = None
    /\ PolicyIdle

ScaleOnce ==
    /\ scaledMatrix = None
    /\ scaledMatrix' = scaleMatrixQuasiImpes(fineMatrix, COMPONENT_INDEX)
    /\ UNCHANGED <<fineMatrix, COMPONENT_INDEX, rescaledMatrix, policyVars, amgVars, extVars>>

ScaleAgain ==
    /\ scaledMatrix # None
    /\ rescaledMatrix = None
    /\ rescaledMatrix' = scaleMatrixQuasiImpes(scaledMatrix, COMPONENT_INDEX)
    /\ UNCHANGED <<fineMatrix, COMPONENT_INDEX, scaledMatrix, policyVars, amgVars, extVars>>

NextScale == ScaleOnce \/ ScaleAgain

SpecScale == InitScale /\ [][NextScale]_vars

(***************************************************************************)
(* BlackoilAmg.                                                            *)
(***************************************************************************)
\* the loop of scaleVectorQuasiImpes over the components of one block, from
\* component i on:  if (i != pressureIndex) block[pressureIndex] += block[i]
RECURSIVE scaleVectorBlockFrom(_, _, _)
scaleVectorBlockFrom(block, pressureIndex, i) ==
    IF i >= BlockSize THEN block
    ELSE IF i # pressureIndex
         THEN scaleVectorBlockFrom(
                  [block EXCEPT ![pressureIndex] = @ + block[i]],
                  pressureIndex, i + 1)
         ELSE scaleVectorBlockFrom(block, pressureIndex, i + 1)

\* mutant: the loop over the components stops one short of the last
scaleVectorQuasiImpes_oneShort(vector, pressureIndex) ==
    [k \in DOMAIN vector |->
        [vector[k] EXCEPT ![pressureIndex] =
            @ + SumOver((0 .. (BlockSize - 2)) \ {pressureIndex},
                        [i \in BlockIdx |-> vector[k][i]])]]

scaleVectorQuasiImpes(vector, pressureIndex) ==
    [k \in DOMAIN vector |-> scaleVectorBlockFrom(vector[k], pressureIndex, 0)]

\* the arguments 0, 1 that the constructor gives the two-level method: the
\* numbers of pre- and of post-smoothing steps
preSteps_one == 0 + 1

preSteps == 0

postSteps == 1

\* the matrix-vector product A x of a block matrix and a fine vector
MatVec(A, x) ==
    [r \in 0 .. (A.N - 1) |-> [i \in BlockIdx |->
        LET cols == {c \in 0 .. (A.M - 1) : <<r, c>> \in DOMAIN A.blocks}
        IN SumOver(cols, [c \in cols |->
               SumOver(BlockIdx, [j \in BlockIdx |-> A.blocks[<<r, c>>][i][j] * x[c][j]])])]]

VecAdd(x, y) == [k \in DOMAIN x |-> [i \in BlockIdx |-> x[k][i] + y[k][i]]]

VecSub(x, y) == [k \in DOMAIN x |-> [i \in BlockIdx |-> x[k][i] - y[k][i]]]

VecScale(n, x) == [k \in DOMAIN x |-> [i \in BlockIdx |-> n * x[k][i]]]

Repeat(n, label) == [k \in 1 .. n |-> label]

\* TwoLevelMethod::apply(v, defect) of Dune, for pre- and post-smoothing
\* step counts pre and post, a smoother that returns w at every step and a
\* coarse solver that returns x and leaves the residual r:
\*   presmooth; moveToCoarseLevel(rhs); coarse solve; lhs = 0;
\*   moveToFineLevel(lhs); v += lhs; postsmooth.
\* The result: the correction, the members lhs_ and rhs_ of the policy and
\* the steps in their order.
twoLevelMethodApply(vIn, defect, pre, post, w, x, r) ==
    LET rhsFine == IF pre = 0 THEN defect
                   ELSE VecSub(defect, VecScale(pre, MatVec(scaledMatrix, w)))
        restricted == moveToCoarseLevelRhs(rhs_, rhsFine, cpr_pressure_aggregation_,
                                           aggregatesMap_, COMPONENT_INDEX)
        prolonged == moveToFineLevelFine(x, ZeroFine(Cardinality(DOMAIN vIn)),
                                         cpr_pressure_aggregation_, aggregatesMap_,
                                         prolongDamp_, COMPONENT_INDEX)
    IN [v |-> VecAdd(VecAdd(vIn, VecScale(pre, w)),
                     VecAdd(prolonged, VecScale(post, w))),
        restricted |-> restricted,
        lhs |-> moveToFineLevelLhs(x, cpr_pressure_aggregation_, prolongDamp_),
        rhs |-> r,
        steps |-> Repeat(pre, "smooth")
                  \o <<"moveToCoarseLevel", "coarseSolve", "moveToFineLevel">>
                  \o Repeat(post, "smooth")]

\* the matrices a BlackoilAmg is built for in Spec: those of FineMatrices
\* that store exactly the positions of the band |row - col| <= 1 and no
\* zero block
OperatorMatrices ==
    { m \in FineMatrices :
        /\ DOMAIN m.blocks = { p \in (0 .. (m.N - 1)) \X (0 .. (m.N - 1)) :
                                 p[1] - p[2] \in {-1, 0, 1} }
        /\ \A p \in DOMAIN m.blocks : m.blocks[p] # ZeroBlock }

\* before construction: the caller holds the fine operator and the CPR
\* parameters
Init ==
    /\ fineMatrix \in OperatorMatrices
    /\ COMPONENT_INDEX \in BlockIdx
    /\ cpr_pressure_aggregation_ \in BOOLEAN
    /\ scaledMatrix = None
    /\ rescaledMatrix = None
    /\ policyState = "Uninitialized"
    /\ levelOperator = None
    /\ aggregatesMap_ = None
    /\ coarseLevelMatrix_ = None
    /\ lhs_ = << >>
    /\ rhs_ = << >>
    /\ prolongDamp_ = 0
    /\ coarseLevelCommunication_ = None
    /\ operator_ = None
    /\ fine = << >>
    /\ fineIn = << >>
    /\ lastOp = "none"
    /\ AmgIdle
    /\ ExtIdle

\* mutant: the matrix of the operator handed in is scaled itself
callerMatrixAfter_inPlace(op, pressureIndex) ==
    scaleMatrixQuasiImpes(op, pressureIndex)

\* the matrix of the caller's operator after scaleMatrixQuasiImpes(op, comm,
\* pressureIndex): op is a reference to const, and the loop runs over
\* *matrix, a new Matrix(op.getmat())
callerMatrixAfter(op, pressureIndex) == op

\* the constructor: scaledMatrixOperator_ is the scaled copy of the fine
\* operator; the two-level method is built on it and has its copy of the
\* transfer policy create the coarse level system from it
BlackoilAmg ==
    /\ phase = "none"
    /\ fineMatrix' = callerMatrixAfter(fineMatrix, COMPONENT_INDEX)
    /\ scaledMatrix' = scaleMatrixQuasiImpes(fineMatrix, COMPONENT_INDEX)
    /\ nScaleMatrix' = nScaleMatrix + 1
    /\ createCoarseLevelSystem(scaleMatrixQuasiImpes(fineMatrix, COMPONENT_INDEX))
    /\ nCreateCoarse' = nCreateCoarse + 1
    /\ phase' = "constructed"
    /\ UNCHANGED <<COMPONENT_INDEX, rescaledMatrix,
                   cpr_pressure_aggregation_, fine, fineIn, lastOp,
                   d, dGiven, scaledD, v, trace, applyCalls, extVars>>

\* what no call after the constructor touches
setupVars == <<scaledMatrix, nScaleMatrix, nCreateCoarse, policyState,
               coarseLevelCommunication_, operator_,
               levelOperator, aggregatesMap_, coarseLevelMatrix_, prolongDamp_>>

callerVars == <<fineMatrix, COMPONENT_INDEX, rescaledMatrix,
                cpr_pressure_aggregation_, fine, fineIn, lastOp, phase,
                extVars>>

\* pre(x, b): twoLevelMethod_.pre(x, b), which prepares the smoother
pre ==
    /\ phase = "constructed"
    /\ UNCHANGED <<setupVars, callerVars, lhs_, rhs_, d, dGiven, scaledD, v, trace,
                   applyCalls>>

\* post(x): twoLevelMethod_.post(x)
post ==
    /\ phase = "constructed"
    /\ UNCHANGED <<setupVars, callerVars, lhs_, rhs_, d, dGiven, scaledD, v, trace,
                   applyCalls>>

\* mutant: the defect is scaled in place
callerDefectAfter_inPlace(dIn, pressureIndex) ==
    scaleVectorQuasiImpes(dIn, pressureIndex)

\* the caller's defect after apply(v, d): d is a reference to const, and
\* what is scaled is scaledD, initialised as a copy of d
callerDefectAfter(dIn, pressureIndex) == dIn

\* apply(v, d) on the vectors: scaledD is a copy of d, scaled; the
\* two-level method is applied to v and scaledD.  The caller hands in a
\* defect and v = 0; the smoother and the coarse solver return any values.
applyVectors ==
    /\ phase = "constructed"
    /\ \E dIn \in FineVectors(fineMatrix.N), w \in SmootherOutputs(fineMatrix.N),
          x \in CoarseVectors(Cardinality(DOMAIN lhs_)),
          r \in Residuals(Cardinality(DOMAIN rhs_)) :
           LET sd == scaleVectorQuasiImpes(dIn, COMPONENT_INDEX)
               res == twoLevelMethodApply(ZeroFine(fineMatrix.N), sd,
                                          preSteps, postSteps, w, x, r)
           IN /\ dGiven' = dIn
              /\ d' = callerDefectAfter(dIn, COMPONENT_INDEX)
              /\ scaledD' = sd
              /\ v' = res.v
              /\ lhs_' = res.lhs
              /\ rhs_' = res.rhs
              /\ trace' = <<"scaleVectorQuasiImpes">> \o res.steps
    /\ applyCalls' = IF applyCalls < MaxApplies THEN applyCalls + 1 ELSE applyCalls

\* mutant: apply scales the operator again
apply_rescaling ==
    /\ applyVectors
    /\ scaledMatrix' = scaleMatrixQuasiImpes(scaledMatrix, COMPONENT_INDEX)
    /\ nScaleMatrix' = nScaleMatrix
    /\ UNCHANGED <<nCreateCoarse, policyState,
               coarseLevelCommunication_, operator_, levelOperator, aggregatesMap_,
                   coarseLevelMatrix_, prolongDamp_, callerVars>>

apply ==
    /\ applyVectors
    /\ UNCHANGED <<setupVars, callerVars>>

Next ==
    \/ BlackoilAmg
    \/ pre
    \/ apply
    \/ post

Spec == Init /\ [][Next]_vars

(***************************************************************************)
(* SpecSolver: the configuration of one BlackoilAmg and its coarse solver, *)
(* OneStepAMGCoarseSolverPolicy::AMGInverseOperator.  The vectors are left *)
(* out: the coarse system is one equation, op_ * x = b.                    *)
(***************************************************************************)
Communications == {"SequentialInformation", "OwnerOverlapCopyCommunication"}

Categories == {"sequential", "overlapping", "nonoverlapping"}

\* the reductions a caller may hand over, and the reduction of the
\* overload without one: 1e-8, in units of 1e-8
Reductions == 1 .. MaxReduction

DefaultReduction == 1

\* the fields of CPRParameter the coarse solver reads; the tolerance in the
\* units of the reductions
CPRParameters ==
    [cpr_use_amg_ : BOOLEAN,
     cpr_use_bicgstab_ : BOOLEAN,
     cpr_solver_tol_ : Reductions,
     cpr_max_ell_iter_ : 0 .. MaxEllIter,
     cpr_solver_verbose_ : BOOLEAN]

\* the category a communication type stands for:
\*   std::is_same<Communication, SequentialInformation>::value
\*       ? sequential : overlapping
categoryOfCommunication(comm) ==
    IF comm = "SequentialInformation" THEN "sequential" ELSE "overlapping"

\* mutant: the category is read from the operator in every build
BlackoilAmg_category_ofOperator(newer, comm, opCategory) == opCategory

\* BlackoilAmg::category: with Dune ISTL 2.6 or newer the member function
\* category(), else the enum value category = Operator::category
BlackoilAmg_category(newer, comm, opCategory) ==
    IF newer THEN categoryOfCommunication(comm) ELSE opCategory

\* AMGInverseOperator::category: declared with Dune ISTL 2.6 or newer only
AMGInverseOperator_category(newer, comm) ==
    IF newer THEN categoryOfCommunication(comm) ELSE "undeclared"

\* Dune::BiCGSTABSolver::apply and Dune::CGSolver::apply on op * x = b,
\* started from x.  A defect that is zero at the start: converged without
\* an iteration.  No iteration allowed: not converged.  op = 0 (with a
\* defect): the method breaks down in its first iteration, which BiCGSTAB
\* signals by throwing, as CG does with Dune ISTL 2.6 or newer, while the
\* older CG runs through its iterations; nothing is then reported as
\* converged.  Else the first iteration solves the equation.
KrylovSolve(newer, kind, op, x, b, maxit) ==
    IF b - op * x = 0
    THEN [x |-> x, res |-> [converged |-> TRUE, iterations |-> 0], threw |-> FALSE]
    ELSE IF maxit = 0
    THEN [x |-> x, res |-> [converged |-> FALSE, iterations |-> 0], threw |-> FALSE]
    ELSE IF op = 0
    THEN IF kind = "BiCGSTAB" \/ newer
         THEN [x |-> x, res |-> None, threw |-> TRUE]
         ELSE [x |-> "NaN", res |-> [converged |-> FALSE, iterations |-> maxit],
               threw |-> FALSE]
    ELSE [x |-> b \div op, res |-> [converged |-> TRUE, iterations |-> 1],
          threw |-> FALSE]

\* mutant: both preconditioners are built
AMGInverseOperator_ctor_both(param) ==
    [amg_ |-> "AMGType built by the constructor",
     smoother_ |-> "Smoother built by the constructor"]

\* the constructor of AMGInverseOperator: amg_() and smoother_() start
\* empty; amg_.reset(new AMGType(...)) if param_->cpr_use_amg_, else
\* smoother_.reset(ConstructionTraits<Smoother>::construct(cargs))
AMGInverseOperator_ctor(param) ==
    IF param.cpr_use_amg_
    THEN [amg_ |-> "AMGType built by the constructor", smoother_ |-> NullPtr]
    ELSE [amg_ |-> NullPtr, smoother_ |-> "Smoother built by the constructor"]

\* the preconditioner of an apply:
\*   prec = amg_.get(); if ( ! amg_ ) prec = smoother_.get();
preconditionerOf(amg, smoother) ==
    IF amg # NullPtr THEN amg ELSE smoother

\* mutant: the reduction handed over is the solver's tolerance
AMGInverseOperator_apply_useReduction(newer, param, amg, smoother, op, x, b, reduction) ==
    LET kind == IF param.cpr_use_bicgstab_ THEN "BiCGSTAB" ELSE "CG"
    IN [solver |-> [kind |-> kind,
                    prec |-> preconditionerOf(amg, smoother),
                    tolerance |-> reduction,
                    maxit |-> param.cpr_max_ell_iter_,
                    verbosity |-> IF param.cpr_solver_verbose_ THEN 1 ELSE 0],
        out |-> KrylovSolve(newer, kind, op, x, b, param.cpr_max_ell_iter_)]

\* AMGInverseOperator::apply(x, b, reduction, res): the preconditioner is
\* amg_ if it is set and the smoother else; tolerance, maxit and verbosity are read from param_ (the
\* rank of the one process is 0); BiCGSTAB or CG is built with them and
\* applied to x, b, res.  The result is the solver as built and what its
\* apply left; an exception of the solver leaves apply, which has no
\* handler.
AMGInverseOperator_apply(newer, param, amg, smoother, op, x, b, reduction) ==
    LET kind == IF param.cpr_use_bicgstab_ THEN "BiCGSTAB" ELSE "CG"
    IN [solver |-> [kind |-> kind,
                    prec |-> preconditionerOf(amg, smoother),
                    tolerance |-> param.cpr_solver_tol_,
                    maxit |-> param.cpr_max_ell_iter_,
                    verbosity |-> IF param.cpr_solver_verbose_ THEN 1 ELSE 0],
        out |-> KrylovSolve(newer, kind, op, x, b, param.cpr_max_ell_iter_)]

\* the coarse operators, right-hand sides and start values of SpecSolver
CoarseOperators == {0, 1, 2}

CoarseRhs == {0, 2}

CoarseStart == {0, 1}

InitSolver ==
    /\ ScaleIdle
    /\ PolicyIdle
    /\ AmgIdle
    /\ COMPONENT_INDEX = 0
    /\ DUNE_ISTL_2_6 \in BOOLEAN
    /\ Communication \in Communications
    /\ Operator_category \in Categories
    /\ param_ \in CPRParameters
    /\ amg_ = NullPtr
    /\ smoother_ = NullPtr
    /\ op_ = None
    /\ coarseCall = None
    /\ categoryAnswer = None
    /\ ParIdle
    /\ LaterIdle

\* the constructors of BlackoilAmg and, through createCoarseLevelSolver, of
\* AMGInverseOperator, as far as the configuration goes: neither looks at
\* the category of the operator or at how it goes with the communication
ConstructSolver ==
    /\ phase = "none"
    /\ phase' = "constructed"
    /\ op_' \in CoarseOperators
    /\ amg_' = AMGInverseOperator_ctor(param_).amg_
    /\ smoother_' = AMGInverseOperator_ctor(param_).smoother_
    /\ UNCHANGED <<scaleVars, policyVars, d, dGiven, scaledD, v, trace, applyCalls,
                   nScaleMatrix, nCreateCoarse, DUNE_ISTL_2_6, Communication,
                   Operator_category, param_, coarseCall, categoryAnswer,
                   parVars, laterVars>>

\* category() of the preconditioner and of the coarse solver
category ==
    /\ phase = "constructed"
    /\ categoryAnswer' =
           [amg |-> BlackoilAmg_category(DUNE_ISTL_2_6, Communication,
                                         Operator_category),
            coarse |-> AMGInverseOperator_category(DUNE_ISTL_2_6, Communication)]
    /\ UNCHANGED <<scaleVars, policyVars, amgVars, DUNE_ISTL_2_6, Communication,
                   Operator_category, param_, amg_, smoother_, op_, coarseCall,
                   parVars, laterVars>>

\* apply(x, b, reduction, res) of the coarse solver
CoarseApply ==
    /\ phase = "constructed"
    /\ \E x \in CoarseStart, b \in CoarseRhs, reduction \in Reductions :
           coarseCall' =
               [x |-> x, b |-> b, reduction |-> reduction,
                result |-> AMGInverseOperator_apply(DUNE_ISTL_2_6, param_, amg_,
                                                    smoother_, op_, x, b,
                                                    reduction)]
    /\ UNCHANGED <<scaleVars, policyVars, amgVars, DUNE_ISTL_2_6, Communication,
                   Operator_category, param_, amg_, smoother_, op_,
                   categoryAnswer, parVars, laterVars>>

\* apply(x, b, res): return apply(x, b, 1e-8, res)
CoarseApplyDefault ==
    /\ phase = "constructed"
    /\ \E x \in CoarseStart, b \in CoarseRhs :
           coarseCall' =
               [x |-> x, b |-> b, reduction |-> DefaultReduction,
                result |-> AMGInverseOperator_apply(DUNE_ISTL_2_6, param_, amg_,
                                                    smoother_, op_, x, b,
                                                    DefaultReduction)]
    /\ UNCHANGED <<scaleVars, policyVars, amgVars, DUNE_ISTL_2_6, Communication,
                   Operator_category, param_, amg_, smoother_, op_,
                   categoryAnswer, parVars, laterVars>>

NextSolver ==
    \/ ConstructSolver
    \/ category
    \/ pre
    \/ post
    \/ CoarseApply
    \/ CoarseApplyDefault

SpecSolver == InitSolver /\ [][NextSolver]_vars

(***************************************************************************)
(* Several processes sharing one overlapping communication.  Every fine    *)
(* vertex is owned by one process and held as a copy by the others.        *)
(***************************************************************************)
Procs == {0, 1}

SharedVertices == 0 .. (NumVertices - 1)

Owner(g) == g % Cardinality(Procs)

\* the state of the one-process parts, with the mode left open
InitShared ==
    /\ ScaleIdle
    /\ AmgIdle
    /\ SolverIdle
    /\ COMPONENT_INDEX = 0
    /\ policyState = "Uninitialized"
    /\ levelOperator = None
    /\ aggregatesMap_ = None
    /\ coarseLevelMatrix_ = None
    /\ lhs_ = << >>
    /\ rhs_ = << >>
    /\ prolongDamp_ = 0
    /\ coarseLevelCommunication_ = None
    /\ operator_ = None
    /\ fine = << >>
    /\ fineIn = << >>
    /\ lastOp = "none"

(***************************************************************************)
(* SpecProlong: moveToFineLevel on every process.  The coarse solution a   *)
(* process adds need not be the one the owner of the vertex adds.          *)
(***************************************************************************)
InitProlong ==
    /\ InitShared
    /\ LaterIdle
    /\ cpr_pressure_aggregation_ \in BOOLEAN
    /\ procAt = [p \in Procs |-> "idle"]
    /\ \E s \in 0 .. MaxDefectScale :
           localFine = [p \in Procs |-> [g \in SharedVertices |-> s * (g + 1)]]
    /\ localLhs \in [Procs -> 0 .. MaxCoarseScale]
    /\ ownerSent = [p \in Procs |-> [g \in SharedVertices |-> 0]]
    /\ program = << >>
    /\ callsDone = << >>

\* mutant: no branch synchronizes
afterLocalLoop_noSync(aggregation) == "returned"

\* what follows the loop over the blocks: communication_->copyOwnerToAll
\* (fine, fine) in the aggregation branch, the return in the direct branch
afterLocalLoop(aggregation) ==
    IF aggregation THEN "copyOwnerToAll" ELSE "returned"

\* the loop over the local blocks: += in the aggregation branch, = in the
\* direct branch
LocalProlong(p) ==
    /\ procAt[p] = "idle"
    /\ localFine' = [localFine EXCEPT ![p] =
           [g \in SharedVertices |->
               IF cpr_pressure_aggregation_
               THEN localFine[p][g] + localLhs[p] * (g + 1)
               ELSE localLhs[p] * (g + 1)]]
    /\ procAt' = [procAt EXCEPT ![p] = afterLocalLoop(cpr_pressure_aggregation_)]
    /\ UNCHANGED <<scaleVars, policyVars, amgVars, solverVars, laterVars, localLhs,
                   ownerSent, program, callsDone>>

\* copyOwnerToAll, first half: the process sends the values it owns
SendOwned(p) ==
    /\ procAt[p] = "copyOwnerToAll"
    /\ ownerSent' = [ownerSent EXCEPT ![p] =
           [g \in SharedVertices |-> IF Owner(g) = p THEN localFine[p][g] ELSE 0]]
    /\ procAt' = [procAt EXCEPT ![p] = "receiving"]
    /\ UNCHANGED <<scaleVars, policyVars, amgVars, solverVars, laterVars, localFine,
                   localLhs, program, callsDone>>

\* copyOwnerToAll, second half: the process waits for the values of the
\* owners of its copies, stores them and returns
ReceiveCopies(p) ==
    /\ procAt[p] = "receiving"
    /\ \A q \in Procs : procAt[q] \in {"receiving", "returned"}
    /\ localFine' = [localFine EXCEPT ![p] =
           [g \in SharedVertices |->
               IF Owner(g) = p THEN localFine[p][g] ELSE ownerSent[Owner(g)][g]]]
    /\ procAt' = [procAt EXCEPT ![p] = "returned"]
    /\ UNCHANGED <<scaleVars, policyVars, amgVars, solverVars, laterVars, localLhs,
                   ownerSent, program, callsDone>>

NextProlong ==
    \/ \E p \in Procs : LocalProlong(p)
    \/ \E p \in Procs : SendOwned(p)
    \/ \E p \in Procs : ReceiveCopies(p)

SpecProlong == InitProlong /\ [][NextProlong]_vars

(***************************************************************************)
(* SpecCollective: every process issues its own sequence of pre, apply and *)
(* post (the coarse solver's apply runs inside apply).  Each call holds a  *)
(* communication with all processes and returns when they have all entered *)
(* the same call.  Every process runs on while it can.                     *)
(***************************************************************************)
Calls == {"pre", "apply", "post"}

Programs == UNION { [1 .. n -> Calls] : n \in 1 .. MaxCalls }

InitCollective ==
    /\ InitShared
    /\ LaterIdle
    /\ cpr_pressure_aggregation_ = TRUE
    /\ procAt = [p \in Procs |-> "idle"]
    /\ localFine = << >>
    /\ localLhs = << >>
    /\ ownerSent = << >>
    /\ program \in [Procs -> Programs]
    /\ callsDone = [p \in Procs |-> 0]

\* mutant: a call returns without waiting for the other processes
CollectiveComplete_alone(p) == TRUE

\* the call process p is in can return: every process has entered its
\* call of the same number, and that call is the same one
CollectiveComplete(p) ==
    LET k == callsDone[p] + 1
    IN \A q \in Procs :
           /\ Len(program[q]) >= k
           /\ program[q][k] = program[p][k]
           /\ callsDone[q] >= k \/ (callsDone[q] = k - 1 /\ procAt[q] = "inCall")

\* process p enters its next call of pre, apply or post
Call(p) ==
    /\ procAt[p] = "idle"
    /\ callsDone[p] < Len(program[p])
    /\ procAt' = [procAt EXCEPT ![p] = "inCall"]
    /\ UNCHANGED <<scaleVars, policyVars, amgVars, solverVars, laterVars, localFine,
                   localLhs, ownerSent, program, callsDone>>

\* the call returns on process p
Return(p) ==
    /\ procAt[p] = "inCall"
    /\ CollectiveComplete(p)
    /\ procAt' = [procAt EXCEPT ![p] = "idle"]
    /\ callsDone' = [callsDone EXCEPT ![p] = @ + 1]
    /\ UNCHANGED <<scaleVars, policyVars, amgVars, solverVars, laterVars, localFine,
                   localLhs, ownerSent, program>>

NextCollective ==
    \/ \E p \in Procs : Call(p)
    \/ \E p \in Procs : Return(p)

SpecCollective ==
    /\ InitCollective
    /\ [][NextCollective]_vars
    /\ \A p \in Procs : WF_vars(Call(p) \/ Return(p))

(***************************************************************************)
(* SpecOwnership: one transfer policy, the clones made of it (clone() is   *)
(* a new policy copy-constructed from this one, the member-wise copy) and  *)
(* their destruction.  coarseLevelCommunication_ is a                      *)
(* std::shared_ptr: the copies share a control block, and the deleter of   *)
(* the block runs when the last of them lets go.  Communication object 0   *)
(* is the caller's *communication_; object k is the one the k-th call of   *)
(* createCoarseLevelSystem constructs.                                     *)
(***************************************************************************)
Instances == 0 .. (MaxInstances - 1)

ControlBlocks == 1 .. MaxCreates

\* the object the control block of the k-th createCoarseLevelSystem points to
objectOf(aggregation, k) ==
    IF coarseCommunicationOf(aggregation).object = FineCommunication THEN 0 ELSE k

\* a shared pointer lets go of control block k: the last one runs the deleter
releaseCount(counts, k) ==
    IF k = 0 THEN counts ELSE [counts EXCEPT ![k] = @ - 1]

releaseAlive(alive, counts, aggregation, k) ==
    IF k # 0 /\ counts[k] = 1 /\ coarseCommunicationOf(aggregation).deleter = "delete"
    THEN [alive EXCEPT ![objectOf(aggregation, k)] = "destroyed"]
    ELSE alive

InitOwnership ==
    /\ InitShared
    /\ ParIdle
    /\ StepIdle
    /\ TimerIdle
    /\ RunIdle
    /\ KeywordIdle
    /\ EquivIdle
    /\ cpr_pressure_aggregation_ \in BOOLEAN
    /\ instState = [i \in Instances |-> IF i = 0 THEN "live" ELSE "unborn"]
    /\ held = [i \in Instances |-> 0]
    /\ useCount = [k \in ControlBlocks |-> 0]
    /\ commAlive = [o \in {0} \cup ControlBlocks |-> IF o = 0 THEN "alive" ELSE "unbuilt"]
    /\ nCreated = 0

ownershipRest == <<scaleVars, policyVars, amgVars, solverVars, parVars, stepVars,
                   timerVars, runVars, keywordVars, equivVars>>

\* createCoarseLevelSystem on instance i: coarseLevelCommunication_.reset(...)
\* lets go of what the pointer held and takes a new control block
CreateOnInstance(i) ==
    /\ instState[i] = "live"
    /\ nCreated < MaxCreates
    /\ LET k == nCreated + 1
           o == objectOf(cpr_pressure_aggregation_, k)
           afterRelease == releaseAlive(commAlive, useCount,
                                        cpr_pressure_aggregation_, held[i])
       IN /\ nCreated' = k
          /\ held' = [held EXCEPT ![i] = k]
          /\ useCount' = [releaseCount(useCount, held[i]) EXCEPT ![k] = 1]
          /\ commAlive' = [afterRelease EXCEPT ![o] = "alive"]
    /\ UNCHANGED <<ownershipRest, instState>>

\* clone() of instance i gives instance j
Clone(i, j) ==
    /\ instState[i] = "live"
    /\ instState[j] = "unborn"
    /\ instState' = [instState EXCEPT ![j] = "live"]
    /\ held' = [held EXCEPT ![j] = held[i]]
    /\ useCount' = IF held[i] = 0 THEN useCount
                   ELSE [useCount EXCEPT ![held[i]] = @ + 1]
    /\ UNCHANGED <<ownershipRest, commAlive, nCreated>>

\* the destructor of instance i
Destroy(i) ==
    /\ instState[i] = "live"
    /\ instState' = [instState EXCEPT ![i] = "destroyed"]
    /\ held' = [held EXCEPT ![i] = 0]
    /\ useCount' = releaseCount(useCount, held[i])
    /\ commAlive' = releaseAlive(commAlive, useCount, cpr_pressure_aggregation_,
                                 held[i])
    /\ UNCHANGED <<ownershipRest, nCreated>>

NextOwnership ==
    \/ \E i \in Instances : CreateOnInstance(i)
    \/ \E i, j \in Instances : Clone(i, j)
    \/ \E i \in Instances : Destroy(i)

SpecOwnership == InitOwnership /\ [][NextOwnership]_vars

(***************************************************************************)
(* SpecSetup: one call of createCoarseLevelSystem, statement by statement, *)
(* as far as the global lookup tables of the two communications go.        *)
(***************************************************************************)
\* mutant: the fine lookup is freed before the sparsity pattern is built
aggregationSteps_freeEarly ==
    <<"buildAggregates", "constructCoarseCommunication",
      "communication_->buildGlobalLookup", "coarsen", "GraphCreator::free",
      "coarseLevelCommunication_->buildGlobalLookup", "publish",
      "newCoarseMatrix", "communication_->freeGlobalLookup",
      "buildCoarseSparseMatrix", "deleteGraph",
      "coarseLevelCommunication_->freeGlobalLookup if below target",
      "calculateCoarseEntries", "resize", "constructOperator">>

\* the statements of the aggregation branch and what follows it, in order
aggregationSteps ==
    <<"buildAggregates", "constructCoarseCommunication",
      "communication_->buildGlobalLookup", "coarsen", "GraphCreator::free",
      "coarseLevelCommunication_->buildGlobalLookup", "publish",
      "newCoarseMatrix", "buildCoarseSparseMatrix", "deleteGraph",
      "communication_->freeGlobalLookup",
      "coarseLevelCommunication_->freeGlobalLookup if below target",
      "calculateCoarseEntries", "resize", "constructOperator">>

\* the statements of the direct branch and what follows it, in order
directSteps ==
    <<"newCoarseMatrix", "insertPattern", "copyEntries", "aliasCommunication",
      "resize", "constructOperator">>

setupSteps(aggregation) == IF aggregation THEN aggregationSteps ELSE directSteps

\* mutant: the lookup is released also when the rows equal the target
releaseCoarseLookup_orEqual(rows, target) == rows <= target

\* if( static_cast<int>(this->coarseLevelMatrix_->N()) < criterion_.coarsenTarget() )
releaseCoarseLookup(rows, target) == rows < target

\* the rows of the coarse matrix: new CoarseMatrix(aggregates, aggregates, ...)
coarseRowsOf(args) == args.aggregates

InitSetup ==
    /\ InitShared
    /\ ParIdle
    /\ OwnIdle
    /\ TimerIdle
    /\ RunIdle
    /\ KeywordIdle
    /\ EquivIdle
    /\ cpr_pressure_aggregation_ \in BOOLEAN
    /\ \E n \in 1 .. NumVertices, a \in 0 .. NumVertices, t \in 0 .. MaxCoarsenTarget :
           /\ a <= n
           /\ setupArgs = [rows |-> n, aggregates |-> a, coarsenTarget |-> t]
    /\ setupPc = 0
    /\ stepsDone = {}
    /\ fineLookup = FALSE
    /\ coarseLookup = FALSE
    /\ fineLookupCalls = [build |-> 0, free |-> 0]

setupReturned == setupPc = Len(setupSteps(cpr_pressure_aggregation_))

\* the next statement of createCoarseLevelSystem
SetupStep ==
    /\ ~setupReturned
    /\ LET step == setupSteps(cpr_pressure_aggregation_)[setupPc + 1]
       IN /\ setupPc' = setupPc + 1
          /\ stepsDone' = stepsDone \cup {step}
          /\ fineLookup' =
                 IF step = "communication_->buildGlobalLookup" THEN TRUE
                 ELSE IF step = "communication_->freeGlobalLookup" THEN FALSE
                 ELSE fineLookup
          /\ fineLookupCalls' =
                 IF step = "communication_->buildGlobalLookup"
                 THEN [fineLookupCalls EXCEPT !.build = @ + 1]
                 ELSE IF step = "communication_->freeGlobalLookup"
                 THEN [fineLookupCalls EXCEPT !.free = @ + 1]
                 ELSE fineLookupCalls
          /\ coarseLookup' =
                 IF step = "coarseLevelCommunication_->buildGlobalLookup" THEN TRUE
                 ELSE IF /\ step = "coarseLevelCommunication_->freeGlobalLookup if below target"
                         /\ releaseCoarseLookup(coarseRowsOf(setupArgs),
                                                setupArgs.coarsenTarget)
                 THEN FALSE
                 ELSE coarseLookup
    /\ UNCHANGED <<scaleVars, policyVars, amgVars, solverVars, parVars, ownVars,
                   timerVars, runVars, keywordVars, equivVars, setupArgs>>

NextSetup == SetupStep

SpecSetup == InitSetup /\ [][NextSetup]_vars

(***************************************************************************)
(* SimulatorTimer: the report steps of a schedule.  Times are whole        *)
(* numbers here (doubles in the program).                                  *)
(***************************************************************************)
\* the sum of the first k entries of seq
RECURSIVE SumFirst(_, _)
SumFirst(seq, k) == IF k = 0 THEN 0 ELSE SumFirst(seq, k - 1) + seq[k]

Schedules == UNION { [1 .. n -> 1 .. MaxStepLength] : n \in 0 .. MaxSteps }

\* numSteps(), done(), initialStep()
numSteps == Len(timesteps_)

done == current_step_ = numSteps

initialStep == current_step_ = 0

\* mutant: the time advances by the length of the first report step
timeAfterIncrement_first(time, steps, step) == time + steps[1]

\* operator++: current_time_ += timesteps_[current_step_]
timeAfterIncrement(time, steps, step) == time + steps[step + 1]

\* init(timeMap, report_step): the step lengths and the total time of the
\* time map; setCurrentStepNum(report_step)
timerInit(steps, report_step) ==
    /\ timesteps_ = steps
    /\ total_time_ = SumFirst(steps, Len(steps))
    /\ current_step_ = report_step
    /\ current_time_ = SumFirst(steps, report_step)
    /\ timerOp = "init"

\* ++timer, which asserts !done()
timerIncrement ==
    /\ ~done
    /\ current_time_' = timeAfterIncrement(current_time_, timesteps_, current_step_)
    /\ current_step_' = current_step_ + 1
    /\ timerOp' = "++"
    /\ UNCHANGED <<timesteps_, total_time_>>

timerRest == <<scaleVars, policyVars, amgVars, solverVars, parVars, ownVars,
               stepVars, keywordVars, equivVars>>

(***************************************************************************)
(* SpecTimer: a timer initialised from a schedule, then ++timer and        *)
(* setCurrentStepNum in any order.                                         *)
(***************************************************************************)
InitTimer ==
    /\ InitShared
    /\ ParIdle
    /\ OwnIdle
    /\ StepIdle
    /\ RunIdle
    /\ KeywordIdle
    /\ EquivIdle
    /\ cpr_pressure_aggregation_ = FALSE
    /\ \E steps \in Schedules : timerInit(steps, 0)

Increment ==
    /\ timerIncrement
    /\ UNCHANGED <<timerRest, runVars>>

\* setCurrentStepNum(step): the elapsed time is summed anew
SetCurrentStepNum ==
    /\ \E step \in 0 .. numSteps :
           /\ current_step_' = step
           /\ current_time_' = SumFirst(timesteps_, step)
    /\ timerOp' = "setCurrentStepNum"
    /\ UNCHANGED <<timerRest, runVars, timesteps_, total_time_>>

NextTimer ==
    \/ Increment
    \/ SetCurrentStepNum

SpecTimer == InitTimer /\ [][NextTimer]_vars

(***************************************************************************)
(* SpecRun: SimulatorFullyImplicitBlackoilEbos::run(timer), as far as the  *)
(* timer, the solves and the writes go.  The solve of a report step        *)
(* returns; run goes on while it can.                                      *)
(***************************************************************************)
\* mutant: the state is written before the timer is advanced
runLoopBody_writeFirst == <<"step", "writeTimeStep", "++timer">>

\* the body of the main loop: the solve of the report step, ++timer,
\* output_writer_.writeTimeStep
runLoopBody == <<"step", "++timer", "writeTimeStep">>

InitRun ==
    /\ InitShared
    /\ ParIdle
    /\ OwnIdle
    /\ StepIdle
    /\ KeywordIdle
    /\ EquivIdle
    /\ cpr_pressure_aggregation_ = FALSE
    /\ \E steps \in Schedules : \E first \in 0 .. Len(steps) : timerInit(steps, first)
    /\ runPc = "while"
    /\ runStart = current_step_
    /\ iterations = 0
    /\ runLog = << >>
    /\ report = [converged |-> FALSE]

\* while (!timer.done()): into the body, or past the loop to the return
LoopTest ==
    /\ runPc = "while"
    /\ IF done
       THEN /\ runPc' = "returned"
            /\ report' = [report EXCEPT !.converged = TRUE]
            /\ runLog' = runLog
       ELSE /\ runPc' = runLoopBody[1]
            /\ report' = report
            /\ runLog' = IF initialStep
                         THEN Append(runLog, <<"writeTimeStep", current_step_>>)
                         ELSE runLog
    /\ UNCHANGED <<timerRest, timerVars, runStart, iterations>>

afterBody(name) ==
    LET i == CHOOSE k \in 1 .. Len(runLoopBody) : runLoopBody[k] = name
    IN IF i = Len(runLoopBody) THEN "while" ELSE runLoopBody[i + 1]

\* adaptiveTimeStepping->step or solver->step for the report step
SolveReportStep ==
    /\ runPc = "step"
    /\ runLog' = Append(runLog, <<"step", current_step_>>)
    /\ runPc' = afterBody("step")
    /\ UNCHANGED <<timerRest, timerVars, runStart, iterations, report>>

\* ++timer
AdvanceTimer ==
    /\ runPc = "++timer"
    /\ timerIncrement
    /\ iterations' = iterations + 1
    /\ runPc' = afterBody("++timer")
    /\ UNCHANGED <<timerRest, runStart, runLog, report>>

\* output_writer_.writeTimeStep(timer, ...)
WriteTimeStep ==
    /\ runPc = "writeTimeStep"
    /\ runLog' = Append(runLog, <<"writeTimeStep", current_step_>>)
    /\ runPc' = afterBody("writeTimeStep")
    /\ UNCHANGED <<timerRest, timerVars, runStart, iterations, report>>

NextRun ==
    \/ LoopTest
    \/ SolveReportStep
    \/ AdvanceTimer
    \/ WriteTimeStep

SpecRun == InitRun /\ [][NextRun]_vars /\ WF_vars(NextRun)

(***************************************************************************)
(* SpecKeywords: MissingFeatures::checkKeywords(deck), as far as the       *)
(* warnings "Keyword '...' is not supported by flow" go.                   *)
(***************************************************************************)
\* the initialiser of unsupported_keywords as written, token by token, up to
\* "CPR": string literals and the commas between them
unsupportedTokens ==
    <<"ADSALNOD", ",", "API", ",", "AQUCON", ",", "AQUNUM",
      "COMPLUMP", ",", "CONNECTION", ",", "CPR">>

\* the strings a token sequence denotes: adjacent string literals are
\* concatenated into one, a comma ends an element
RECURSIVE elementsOf(_, _)
elementsOf(tokens, current) ==
    IF tokens = << >> THEN (IF current = "" THEN {} ELSE {current})
    ELSE IF Head(tokens) = ","
    THEN (IF current = "" THEN {} ELSE {current}) \cup elementsOf(Tail(tokens), "")
    ELSE elementsOf(Tail(tokens), current \o Head(tokens))

\* std::unordered_set<std::string> unsupported_keywords = { ... }
unsupported_keywords == elementsOf(unsupportedTokens, "")

\* the keyword names the decks of the model are made of
DeckNames == {"AQUNUM", "COMPLUMP", "CPR", "AQUNUMCOMPLUMP", "WELSPECS"}

Decks == UNION { [1 .. n -> DeckNames] : n \in 0 .. MaxDeck }

InitKeywords ==
    /\ InitShared
    /\ ParIdle
    /\ OwnIdle
    /\ StepIdle
    /\ TimerIdle
    /\ RunIdle
    /\ EquivIdle
    /\ cpr_pressure_aggregation_ = FALSE
    /\ deck \in Decks
    /\ deckIdx = 0
    /\ warnings = << >>

\* one iteration of the loop over the keywords of the deck
CheckKeyword ==
    /\ deckIdx < Len(deck)
    /\ deckIdx' = deckIdx + 1
    /\ warnings' = IF deck[deckIdx + 1] \in unsupported_keywords
                   THEN Append(warnings, <<deckIdx + 1, deck[deckIdx + 1]>>)
                   ELSE warnings
    /\ UNCHANGED <<scaleVars, policyVars, amgVars, solverVars, parVars, ownVars,
                   stepVars, timerVars, runVars, equivVars, deck>>

NextKeywords == CheckKeyword

SpecKeywords == InitKeywords /\ [][NextKeywords]_vars

(***************************************************************************)
(* SpecEquivalence: one fine operator and one set of parameters handed to  *)
(* two transfer policies, one over Dune::Amg::SequentialInformation and    *)
(* one over an overlapping communication that runs on one process.  Both   *)
(* build their coarse level and then transfer the same vectors.            *)
(***************************************************************************)
\* what globalLookup().pair(vertex) answers: a null pointer, or a pair
\* whose local index carries an attribute
NoPair == "no pair"

OwnerAttribute == "owner"

\* the lookups of an overlapping communication on one process: an index the
\* process holds is owned by it, for there is no other process to own it;
\* a vertex may be missing from the index set
OneProcessLookups(n) == [0 .. (n - 1) -> {NoPair, OwnerAttribute}]

\* mutant: the overlap flags are the owner set itself
OverlapFlags_ownerSet(attribute) == attribute = OwnerAttribute

\* using OverlapFlags = Dune::NegateSet<ParallelInformation::OwnerSet>:
\* contains(attribute) for every attribute that is not owner
OverlapFlags(attribute) == attribute # OwnerAttribute

\* is the vertex an overlap vertex: pair != 0 and
\* overlap.contains(pair->local().attribute()); SequentialInformation has
\* no lookup and no overlap
isOverlapVertex(comm, lookup, vx) ==
    /\ comm # "SequentialInformation"
    /\ lookup[vx] # NoPair
    /\ OverlapFlags(lookup[vx])

\* buildOverlapVertices: the vertices of the graph that are overlap
\* vertices (the code counts them, then collects them into an array it
\* sorts by aggregate)
buildOverlapVertices(comm, lookup) ==
    {vx \in DOMAIN lookup : isOverlapVertex(comm, lookup, vx)}

\* excluded after GraphCreator::create(fineOperator, excluded,
\* *communication_, OverlapFlags()): the overlap vertices are left out of
\* the graph that is aggregated
excludedFor(comm, lookup) ==
    [vx \in DOMAIN lookup |-> isOverlapVertex(comm, lookup, vx)]

\* ConnectivityConstructor<G,C>::examine with a range of overlap vertices:
\* the row of an aggregate gets the aggregates of the non-isolated
\* neighbours of its vertices that are not overlap vertices; an overlap
\* vertex contributes the diagonal of its aggregate only
examineWithOverlap(mat, aggregates, overlapVertices) ==
    { <<aggregates[p[1]], aggregates[p[2]]>> :
        p \in { q \in DOMAIN mat.blocks : /\ aggregates[q[1]] # ISOLATED
                                          /\ aggregates[q[2]] # ISOLATED
                                          /\ q[1] \notin overlapVertices } }
    \cup { <<aggregates[vx], aggregates[vx]>> :
             vx \in {w \in overlapVertices : aggregates[w] # ISOLATED} }

\* the two overloads of buildCoarseSparseMatrix: the one for
\* SequentialInformation, and the general one, which builds the overlap
\* vertices and hands them to examine
buildCoarseSparseMatrixFor(comm, lookup, mat, aggregates) ==
    IF comm = "SequentialInformation"
    THEN buildCoarseSparseMatrix(mat, aggregates)
    ELSE examineWithOverlap(mat, aggregates, buildOverlapVertices(comm, lookup))

\* createCoarseLevelSystem over the communication comm: the coarse matrix
coarseMatrixFor(comm, lookup, fineMat, aggregation, agg, ci) ==
    IF aggregation
    THEN calculateCoarseEntries(
             [N |-> coarsen(agg.noAggregates), M |-> coarsen(agg.noAggregates),
              entries |-> [p \in buildCoarseSparseMatrixFor(comm, lookup, fineMat,
                                                            agg.map) |-> 0]],
             fineMat, agg.map, ci, 0)
    ELSE directCoarseMatrix(fineMat, ci)

\* communication_->copyOwnerToAll(fine, fine): an entry the process holds
\* with an attribute other than owner is overwritten with the value sent
\* by the process that owns it; SequentialInformation does nothing
copyOwnerToAll(comm, lookup, fineVec, sent) ==
    [vx \in DOMAIN fineVec |->
        IF comm # "SequentialInformation"
           /\ lookup[vx] \notin {NoPair, OwnerAttribute}
        THEN sent[vx]
        ELSE fineVec[vx]]

\* moveToFineLevel over the communication comm: the loop over the blocks,
\* then, in the aggregation branch, copyOwnerToAll
moveToFineLevelFor(comm, lookup, lhs, fineVec, aggregation, aggregates, damp, ci) ==
    LET moved == moveToFineLevelFine(lhs, fineVec, aggregation, aggregates, damp, ci)
    IN IF aggregation
       THEN copyOwnerToAll(comm, lookup, moved, ZeroFine(Cardinality(DOMAIN fineVec)))
       ELSE moved

\* what one policy holds after createCoarseLevelSystem
builtSide(comm, in) ==
    [excluded |-> IF in.aggregation THEN excludedFor(comm, in.lookup) ELSE << >>,
     matrix |-> coarseMatrixFor(comm, in.lookup, in.mat, in.aggregation, in.agg, in.ci),
     prolongDamp |-> 1,
     rhs |-> << >>,
     fine |-> << >>]

\* and after moveToCoarseLevel(f); lhs_ = x; moveToFineLevel(f)
appliedSide(comm, in, side, f, x) ==
    [side EXCEPT
        !.rhs = moveToCoarseLevelRhs(ZeroCoarse(side.matrix.N), f, in.aggregation,
                                     in.agg.map, in.ci),
        !.fine = moveToFineLevelFor(comm, in.lookup, x, f, in.aggregation,
                                    in.agg.map, side.prolongDamp, in.ci)]

\* the inputs for the fine operator m: the pressure index, the mode, the
\* aggregates the criterion gives for the operator, the lookup of the
\* overlapping communication
EquivalenceInputs(m) ==
    UNION { { [mat |-> m, ci |-> c, aggregation |-> TRUE, agg |-> a, lookup |-> l] :
                a \in buildAggregates(m, excluded(m.N)),
                l \in OneProcessLookups(m.N) }
            \cup
            { [mat |-> m, ci |-> c, aggregation |-> FALSE,
               agg |-> [map |-> << >>, noAggregates |-> 0], lookup |-> l] :
                l \in OneProcessLookups(m.N) }
            : c \in BlockIdx }

InitEquivalence ==
    /\ InitShared
    /\ ParIdle
    /\ OwnIdle
    /\ StepIdle
    /\ TimerIdle
    /\ RunIdle
    /\ KeywordIdle
    /\ cpr_pressure_aggregation_ = FALSE
    /\ \E m \in TransferMatrices : eqInput \in EquivalenceInputs(m)
    /\ eqPc = "start"
    /\ seqSide = << >>
    /\ parSide = << >>

equivalenceRest == <<scaleVars, policyVars, amgVars, solverVars, parVars, ownVars,
                     stepVars, timerVars, runVars, keywordVars>>

\* both policies build their coarse level
CreateBoth ==
    /\ eqPc = "start"
    /\ seqSide' = builtSide("SequentialInformation", eqInput)
    /\ parSide' = builtSide("OwnerOverlapCopyCommunication", eqInput)
    /\ eqPc' = "built"
    /\ UNCHANGED <<equivalenceRest, eqInput>>

\* both policies restrict the same defect and prolong the same coarse
\* solution
TransferBoth ==
    /\ eqPc = "built"
    /\ \E f \in FineVectors(eqInput.mat.N),
          x \in CoarseVectors(seqSide.matrix.M) :
           /\ seqSide' = appliedSide("SequentialInformation", eqInput, seqSide, f, x)
           /\ parSide' = appliedSide("OwnerOverlapCopyCommunication", eqInput,
                                     parSide, f, x)
    /\ eqPc' = "applied"
    /\ UNCHANGED <<equivalenceRest, eqInput>>

NextEquivalence == CreateBoth \/ TransferBoth

SpecEquivalence == InitEquivalence /\ [][NextEquivalence]_vars

(***************************************************************************)
(* Claims about the scaling (checked under SpecScale).                     *)
(***************************************************************************)
\* the sum of column j of block B over the rows in the set rows
ColumnSum(B, rows, j) == SumOver(rows, [i \in rows |-> B[i][j]])

\* C1: in the matrix scaleMatrixQuasiImpes returns, the pressure row of
\* every stored block is the sum of all rows of the original block, column
\* by column, and every other row of the block is the original row.
C1_PressureRowIsRowSum ==
    scaledMatrix # None =>
        \A p \in DOMAIN fineMatrix.blocks :
            /\ p \in DOMAIN scaledMatrix.blocks
            /\ \A j \in BlockIdx :
                   scaledMatrix.blocks[p][COMPONENT_INDEX][j]
                       = ColumnSum(fineMatrix.blocks[p], BlockIdx, j)
            /\ \A i \in BlockIdx \ {COMPONENT_INDEX} :
                   scaledMatrix.blocks[p][i] = fineMatrix.blocks[p][i]

\* C1 witness: a matrix with an off-diagonal block has been scaled and its
\* pressure rows have changed
C1_Witness ==
    /\ scaledMatrix # None
    /\ DOMAIN fineMatrix.blocks # Diagonal(fineMatrix.N)
    /\ \E p \in DOMAIN fineMatrix.blocks :
           scaledMatrix.blocks[p] # fineMatrix.blocks[p]

\* C2: scaling keeps the sparsity pattern: the scaled matrix stores a block
\* at exactly the positions of the fine matrix, and has its dimensions.
C2_SparsityPreserved ==
    scaledMatrix # None =>
        /\ DOMAIN scaledMatrix.blocks = DOMAIN fineMatrix.blocks
        /\ scaledMatrix.N = fineMatrix.N
        /\ scaledMatrix.M = fineMatrix.M

\* C2 witness: a scaled matrix with some but not all off-diagonal positions
\* stored, one of the stored blocks being numerically zero
C2_Witness ==
    /\ scaledMatrix # None
    /\ \E p \in OffDiagonal(fineMatrix.N) : p \in DOMAIN scaledMatrix.blocks
    /\ \E p \in OffDiagonal(fineMatrix.N) : p \notin DOMAIN scaledMatrix.blocks
    /\ \E p \in DOMAIN scaledMatrix.blocks : scaledMatrix.blocks[p] = ZeroBlock

\* C3 as claimed: scaling an operator that is already the result of the
\* scaling returns the same matrix.
C3_ScalingIdempotent ==
    rescaledMatrix # None => rescaledMatrix = scaledMatrix

\* the rows other than the pressure row of every stored block sum to zero
\* in every column
OtherRowsCancel(mat, pressureIndex) ==
    \A p \in DOMAIN mat.blocks : \A j \in BlockIdx :
        ColumnSum(mat.blocks[p], BlockIdx \ {pressureIndex}, j) = 0

\* C3 amended: a second scaling accumulates.  Its pressure row is the
\* original pressure row plus twice the sum of the other rows, the other
\* rows and the pattern stay, and the matrix is unchanged by the second
\* application exactly when the other rows of every stored block sum to
\* zero in every column.
C3_ScalingAccumulates ==
    rescaledMatrix # None =>
        /\ DOMAIN rescaledMatrix.blocks = DOMAIN fineMatrix.blocks
        /\ \A p \in DOMAIN fineMatrix.blocks :
            /\ \A j \in BlockIdx :
                   rescaledMatrix.blocks[p][COMPONENT_INDEX][j]
                       = fineMatrix.blocks[p][COMPONENT_INDEX][j]
                         + 2 * ColumnSum(fineMatrix.blocks[p],
                                         BlockIdx \ {COMPONENT_INDEX}, j)
            /\ \A i \in BlockIdx \ {COMPONENT_INDEX} :
                   rescaledMatrix.blocks[p][i] = fineMatrix.blocks[p][i]
        /\ (rescaledMatrix = scaledMatrix
                <=> OtherRowsCancel(fineMatrix, COMPONENT_INDEX))

\* C3 witness: a second scaling that changed the scaled matrix
C3_Witness ==
    /\ rescaledMatrix # None
    /\ rescaledMatrix # scaledMatrix

(***************************************************************************)
(* Claims about BlackoilAmg (checked under Spec).                          *)
(***************************************************************************)
\* a defect with, in every block, the pressure component replaced by the
\* sum of all components of the block
PressureSummed(vec, pressureIndex) ==
    [k \in DOMAIN vec |-> [i \in BlockIdx |->
        IF i = pressureIndex
        THEN SumOver(BlockIdx, [c \in BlockIdx |-> vec[k][c]])
        ELSE vec[k][i]]]

\* C4: after every apply(v, d), however many applies came before, the
\* defect handed to the two-level method is d with the pressure component
\* of every block replaced by the sum of the components of the block and
\* the other components unchanged (so the same d gives the same scaled
\* defect at every call).
C4_ScaledDefectHandedOver ==
    applyCalls >= 1 => scaledD = PressureSummed(d, COMPONENT_INDEX)

\* C4 witness: a second apply whose scaling changed the defect
C4_Witness ==
    /\ applyCalls >= 2
    /\ scaledD # d

\* C5: the steps of every apply are, in this order and once each: scale the
\* copy of the defect, moveToCoarseLevel, the coarse solve, moveToFineLevel,
\* one smoothing step; no smoothing step comes before the coarse correction.
C5_ApplyOrder ==
    applyCalls >= 1 =>
        trace = <<"scaleVectorQuasiImpes", "moveToCoarseLevel", "coarseSolve",
                  "moveToFineLevel", "smooth">>

\* C5 witness: a second apply has run, in aggregation mode, and ended with
\* its smoothing step
C5_Witness ==
    /\ applyCalls >= 2
    /\ cpr_pressure_aggregation_
    /\ trace # << >>
    /\ trace[Len(trace)] = "smooth"

\* C6: the set-up of an instance (scaled matrix, aggregate map, coarse
\* matrix) is computed once, by the constructor, and no pre, apply or post
\* changes it.
C6_SetupOnceAndKept ==
    /\ [](phase = "constructed" =>
            /\ nScaleMatrix = 1
            /\ nCreateCoarse = 1
            /\ policyState = "Ready")
    /\ [][phase = "constructed" =>
            /\ scaledMatrix' = scaledMatrix
            /\ aggregatesMap_' = aggregatesMap_
            /\ coarseLevelMatrix_' = coarseLevelMatrix_
            /\ nScaleMatrix' = nScaleMatrix
            /\ nCreateCoarse' = nCreateCoarse]_vars

\* C6 witness: an instance in aggregation mode, with a coarse matrix
\* smaller than the fine one, after two applies with different defects
C6_Witness ==
    /\ phase = "constructed"
    /\ applyCalls >= 2
    /\ cpr_pressure_aggregation_
    /\ coarseLevelMatrix_.N < scaledMatrix.N
    /\ d # ZeroFine(fineMatrix.N)

(***************************************************************************)
(* Claims about the transfer policy (checked under SpecTransfer).          *)
(***************************************************************************)
\* C7: in direct-extraction mode the coarse matrix stores exactly the
\* positions of the fine matrix, and at each the fine block's
\* [COMPONENT_INDEX][COMPONENT_INDEX] value.
C7_DirectExtraction ==
    (policyState = "Ready" /\ ~cpr_pressure_aggregation_) =>
        /\ DOMAIN coarseLevelMatrix_.entries = DOMAIN levelOperator.blocks
        /\ \A p \in DOMAIN levelOperator.blocks :
               coarseLevelMatrix_.entries[p]
                   = levelOperator.blocks[p][COMPONENT_INDEX][COMPONENT_INDEX]

\* C7 witness: direct mode, pressure index 1, a fine matrix that stores one
\* off-diagonal position and not the other, and a zero block
C7_Witness ==
    /\ policyState = "Ready"
    /\ ~cpr_pressure_aggregation_
    /\ COMPONENT_INDEX = 1
    /\ \E p \in OffDiagonal(levelOperator.N) : p \in DOMAIN coarseLevelMatrix_.entries
    /\ \E p \in OffDiagonal(levelOperator.N) : p \notin DOMAIN coarseLevelMatrix_.entries
    /\ \E p \in DOMAIN coarseLevelMatrix_.entries : coarseLevelMatrix_.entries[p] = 0

\* the aggregate ids of a map
AggregateIds(aggregates) ==
    {aggregates[vx] : vx \in DOMAIN aggregates} \ {ISOLATED, UNAGGREGATED}

\* the stored fine positions whose row lies in aggregate a and whose column
\* lies in aggregate b
Between(a, b) ==
    { p \in DOMAIN levelOperator.blocks :
        aggregatesMap_[p[1]] = a /\ aggregatesMap_[p[2]] = b }

CoarseEntry(a, b) ==
    IF <<a, b>> \in DOMAIN coarseLevelMatrix_.entries
    THEN coarseLevelMatrix_.entries[<<a, b>>]
    ELSE 0

\* C8: in aggregation mode, for all aggregates a and b the coarse entry
\* [a][b] is the sum of the fine [COMPONENT_INDEX][COMPONENT_INDEX] values
\* over the stored fine positions with row in a and column in b (so no
\* position with an ISOLATED row or column is counted), and the coarse
\* matrix stores nothing outside the aggregates.
C8_CoarseEntriesAreSums ==
    (policyState = "Ready" /\ cpr_pressure_aggregation_) =>
        /\ DOMAIN coarseLevelMatrix_.entries
               \subseteq AggregateIds(aggregatesMap_) \X AggregateIds(aggregatesMap_)
        /\ \A a, b \in AggregateIds(aggregatesMap_) :
               CoarseEntry(a, b)
                   = SumOver(Between(a, b),
                             [p \in Between(a, b) |->
                                 levelOperator.blocks[p][COMPONENT_INDEX][COMPONENT_INDEX]])

\* C8 witness: a coarse entry that is the sum of several fine entries, none
\* of them zero
C8_Witness ==
    /\ policyState = "Ready"
    /\ cpr_pressure_aggregation_
    /\ \E a, b \in AggregateIds(aggregatesMap_) :
           /\ Cardinality(Between(a, b)) >= 2
           /\ \A p \in Between(a, b) : levelOperator.blocks[p] # ZeroBlock

\* C9: in aggregation mode, once createCoarseLevelSystem has returned the
\* aggregate map gives every fine vertex an aggregate id or ISOLATED, and
\* none is UNAGGREGATED.
C9_NoVertexUnaggregated ==
    (policyState = "Ready" /\ cpr_pressure_aggregation_) =>
        /\ DOMAIN aggregatesMap_ = 0 .. (levelOperator.N - 1)
        /\ \A vx \in DOMAIN aggregatesMap_ :
               /\ aggregatesMap_[vx] # UNAGGREGATED
               /\ aggregatesMap_[vx] = ISOLATED \/ aggregatesMap_[vx] \in Nat

\* C9 witness: a map with an isolated vertex beside an aggregated one
C9_Witness ==
    /\ policyState = "Ready"
    /\ cpr_pressure_aggregation_
    /\ \E vx \in DOMAIN aggregatesMap_ : aggregatesMap_[vx] = ISOLATED
    /\ \E vx \in DOMAIN aggregatesMap_ : aggregatesMap_[vx] \in Nat

\* C10: the coarse matrix has the dimension of the fine matrix in direct
\* mode and, in aggregation mode, as many rows and columns as the map has
\* distinct aggregate ids (ISOLATED is none).
C10_CoarseDimension ==
    policyState = "Ready" =>
        IF cpr_pressure_aggregation_
        THEN /\ coarseLevelMatrix_.N = Cardinality(AggregateIds(aggregatesMap_))
             /\ coarseLevelMatrix_.M = Cardinality(AggregateIds(aggregatesMap_))
        ELSE /\ coarseLevelMatrix_.N = levelOperator.N
             /\ coarseLevelMatrix_.M = levelOperator.M

\* C10 witness: aggregation mode, two fine vertices in one aggregate, so a
\* coarse matrix smaller than the fine one
C10_Witness ==
    /\ policyState = "Ready"
    /\ cpr_pressure_aggregation_
    /\ coarseLevelMatrix_.N >= 1
    /\ coarseLevelMatrix_.N < levelOperator.N
    /\ ISOLATED \notin {aggregatesMap_[vx] : vx \in DOMAIN aggregatesMap_}

(***************************************************************************)
(* Claims about the moves between the levels (SpecTransfer, and            *)
(* SpecRoundTrip for the round trip).                                      *)
(***************************************************************************)
\* the fine vertices of aggregate a
VerticesOf(a) == {vx \in DOMAIN aggregatesMap_ : aggregatesMap_[vx] = a}

\* C11: after moveToCoarseLevel(fine), whatever lhs_ and rhs_ held before,
\* lhs_ is zero and rhs_ is, in aggregation mode, per aggregate the sum of
\* the pressure components of its fine vertices (none of which is ISOLATED)
\* and, in direct mode, per index the pressure component of the fine block.
C11_RestrictionResult ==
    lastOp = "moveToCoarseLevel" =>
        /\ \A a \in DOMAIN lhs_ : lhs_[a] = 0
        /\ IF cpr_pressure_aggregation_
           THEN \A a \in DOMAIN rhs_ :
                    rhs_[a] = SumOver(VerticesOf(a),
                                      [vx \in VerticesOf(a) |->
                                          fineIn[vx][COMPONENT_INDEX]])
           ELSE /\ DOMAIN rhs_ = DOMAIN fineIn
                /\ \A i \in DOMAIN fineIn : rhs_[i] = fineIn[i][COMPONENT_INDEX]

\* C11 witness: aggregation mode, an aggregate of two vertices, a defect
\* that is not zero
C11_Witness ==
    /\ lastOp = "moveToCoarseLevel"
    /\ cpr_pressure_aggregation_
    /\ \E a \in DOMAIN rhs_ : Cardinality(VerticesOf(a)) >= 2 /\ rhs_[a] # 0

\* the coarse index moveToFineLevel reads for fine vertex vx
CoarseIndexOf(vx) == IF cpr_pressure_aggregation_ THEN aggregatesMap_[vx] ELSE vx

NotIsolated(vx) == ~cpr_pressure_aggregation_ \/ aggregatesMap_[vx] # ISOLATED

\* C12: moveToFineLevel(fine) adds the coarse solution to the fine vector:
\* in direct mode and in aggregation mode, the pressure component of every
\* fine vertex that is not ISOLATED is afterwards its value before the call
\* plus the coarse solution at its index or aggregate (damping factor 1).
C12_ProlongationAdds ==
    lastOp = "moveToFineLevel" =>
        /\ prolongDamp_ = 1
        /\ \A vx \in DOMAIN fine :
               NotIsolated(vx) =>
                   fine[vx][COMPONENT_INDEX]
                       = fineIn[vx][COMPONENT_INDEX] + lhs_[CoarseIndexOf(vx)]

\* C12, aggregation mode alone: there the coarse solution is added
C12_AggregationAdds ==
    (lastOp = "moveToFineLevel" /\ cpr_pressure_aggregation_) =>
        /\ prolongDamp_ = 1
        /\ \A vx \in DOMAIN fine :
               NotIsolated(vx) =>
                   fine[vx][COMPONENT_INDEX]
                       = fineIn[vx][COMPONENT_INDEX] + lhs_[CoarseIndexOf(vx)]

\* C12, direct mode: the pressure component is overwritten with the coarse
\* solution, whatever it was before
C12_DirectAssigns ==
    (lastOp = "moveToFineLevel" /\ ~cpr_pressure_aggregation_) =>
        \A vx \in DOMAIN fine :
            /\ fine[vx][COMPONENT_INDEX] = lhs_[vx]
            /\ \A i \in BlockIdx \ {COMPONENT_INDEX} : fine[vx][i] = fineIn[vx][i]

\* C12 witness: direct mode, a fine vector whose pressure component was
\* not zero before the call
C12_Witness ==
    /\ lastOp = "moveToFineLevel"
    /\ ~cpr_pressure_aggregation_
    /\ \E vx \in DOMAIN fineIn : fineIn[vx][COMPONENT_INDEX] # 0

\* the constant of the round trip's defect
RoundTripConstant == d[0][COMPONENT_INDEX]

\* C13: the round trip (restrict a defect of constant pressure component
\* c, coarse solution = restricted value, prolong to a zero vector) gives c
\* at every fine vertex that is not ISOLATED, in both modes.
C13_RoundTripReproduces ==
    lastOp = "moveToFineLevel" =>
        \A vx \in DOMAIN fine :
            NotIsolated(vx) => fine[vx][COMPONENT_INDEX] = RoundTripConstant

\* C13 as the code has it: the round trip gives, at every fine vertex that
\* is not ISOLATED, c in direct mode and c times the number of fine
\* vertices of its aggregate in aggregation mode; so it gives c at the
\* vertices of one-vertex aggregates, and everywhere when c = 0.
C13_RoundTripScalesBySize ==
    lastOp = "moveToFineLevel" =>
        \A vx \in DOMAIN fine :
            NotIsolated(vx) =>
                fine[vx][COMPONENT_INDEX]
                    = IF cpr_pressure_aggregation_
                      THEN RoundTripConstant
                               * Cardinality(VerticesOf(aggregatesMap_[vx]))
                      ELSE RoundTripConstant

\* C13 witness: the round trip has run in aggregation mode through an
\* aggregate of two vertices with a constant that is not zero
C13_Witness ==
    /\ lastOp = "moveToFineLevel"
    /\ cpr_pressure_aggregation_
    /\ RoundTripConstant # 0
    /\ \E vx \in DOMAIN fine :
           /\ aggregatesMap_[vx] # ISOLATED
           /\ Cardinality(VerticesOf(aggregatesMap_[vx])) >= 2

\* the ISOLATED fine vertices, and the stored fine positions that touch none
IsolatedVertices == VerticesOf(ISOLATED)

AwayFromIsolated ==
    { p \in DOMAIN levelOperator.blocks :
        p[1] \notin IsolatedVertices /\ p[2] \notin IsolatedVertices }

\* C14: an ISOLATED fine vertex takes no part in the coarse problem: the
\* coarse entries add up to the fine pressure-pressure values of the
\* positions that touch no ISOLATED vertex (nothing of its row or column is
\* in any coarse entry), after moveToCoarseLevel the entries of rhs_ add up
\* to the defect values of the other vertices, and moveToFineLevel leaves
\* its block as it was.
C14_IsolatedExcluded ==
    (policyState = "Ready" /\ cpr_pressure_aggregation_) =>
        /\ SumOver(DOMAIN coarseLevelMatrix_.entries, coarseLevelMatrix_.entries)
               = SumOver(AwayFromIsolated,
                         [p \in AwayFromIsolated |->
                             levelOperator.blocks[p][COMPONENT_INDEX][COMPONENT_INDEX]])
        /\ \A p \in DOMAIN coarseLevelMatrix_.entries :
               p[1] # ISOLATED /\ p[2] # ISOLATED
        /\ lastOp = "moveToCoarseLevel" =>
               SumOver(DOMAIN rhs_, rhs_)
                   = SumOver(DOMAIN fineIn \ IsolatedVertices,
                             [vx \in DOMAIN fineIn \ IsolatedVertices |->
                                 fineIn[vx][COMPONENT_INDEX]])
        /\ lastOp = "moveToFineLevel" =>
               \A vx \in IsolatedVertices : fine[vx] = fineIn[vx]

\* C14 witness: an ISOLATED vertex with a stored coupling to an aggregated
\* one, after a prolongation of a coarse solution that is not zero
C14_Witness ==
    /\ policyState = "Ready"
    /\ cpr_pressure_aggregation_
    /\ lastOp = "moveToFineLevel"
    /\ \E vx \in IsolatedVertices :
           \E p \in DOMAIN levelOperator.blocks :
               /\ p[1] = vx
               /\ p[2] \notin IsolatedVertices
               /\ levelOperator.blocks[p] # ZeroBlock
    /\ \E a \in DOMAIN lhs_ : lhs_[a] # 0

C17_ReductionIgnored ==
    coarseCall # None =>
        /\ coarseCall.result.solver.kind
               = (IF param_.cpr_use_bicgstab_ THEN "BiCGSTAB" ELSE "CG")
        /\ coarseCall.result.solver.tolerance = param_.cpr_solver_tol_
        /\ coarseCall.result.solver.maxit = param_.cpr_max_ell_iter_
        /\ \A reduction \in Reductions \cup {DefaultReduction} :
               AMGInverseOperator_apply(DUNE_ISTL_2_6, param_, amg_, smoother_,
                                        op_, coarseCall.x, coarseCall.b,
                                        reduction)
                   = coarseCall.result

\* C17 witness: a solve that converged in an iteration, called with a
\* reduction that is neither the default nor the configured tolerance
C17_Witness ==
    /\ coarseCall # None
    /\ coarseCall.reduction # DefaultReduction
    /\ coarseCall.reduction # param_.cpr_solver_tol_
    /\ ~coarseCall.result.out.threw
    /\ coarseCall.result.out.res.iterations = 1

\* C18: category() of the preconditioner and of the coarse solver is
\* sequential exactly for the sequential communication type and
\* overlapping else, in every state.
C18_CategoryFromCommunication ==
    categoryAnswer # None =>
        /\ categoryAnswer.amg = categoryOfCommunication(Communication)
        /\ categoryAnswer.coarse = categoryOfCommunication(Communication)

\* C18 as the code has it: with Dune ISTL 2.6 or newer both categories
\* follow from the communication type alone; with an older Dune ISTL the
\* preconditioner's category is the category of the operator's type and
\* the coarse solver declares none.  In both builds the answer is the same
\* in every state of the instance.
C18_CategoryPerBuild ==
    /\ [](categoryAnswer # None =>
            IF DUNE_ISTL_2_6
            THEN /\ categoryAnswer.amg = categoryOfCommunication(Communication)
                 /\ categoryAnswer.coarse = categoryOfCommunication(Communication)
            ELSE /\ categoryAnswer.amg = Operator_category
                 /\ categoryAnswer.coarse = "undeclared")
    /\ [][categoryAnswer # None => categoryAnswer' = categoryAnswer]_vars

\* C18 witness: the category was asked for after a coarse solve, in the
\* older build, with an operator whose category is not the one of the
\* communication type
C18_Witness ==
    /\ categoryAnswer # None
    /\ coarseCall # None
    /\ ~DUNE_ISTL_2_6
    /\ Operator_category # categoryOfCommunication(Communication)

\* the combinations of operator category and communication type that go
\* together
SupportedCombination ==
    Operator_category = categoryOfCommunication(Communication)

\* C20: no BlackoilAmg is constructed, and so none can be given pre or
\* apply, with an unsupported combination of solver category and
\* communication object.
C20_ConstructionFailsFast ==
    phase = "constructed" => SupportedCombination

(***************************************************************************)
(* Claims about several processes (SpecProlong, SpecCollective).           *)
(***************************************************************************)
AllReturnedFromProlong == \A p \in Procs : procAt[p] = "returned"

\* C15: in aggregation mode, once every process has returned from
\* moveToFineLevel every copy of a fine entry equals the value its owner
\* holds, that is the owner's value after the owner's own addition (the
\* broadcast comes after the local additions); in direct mode nothing is
\* sent and no process waits.
C15_OwnerValuesBroadcast ==
    /\ (cpr_pressure_aggregation_ /\ AllReturnedFromProlong) =>
           \A p \in Procs : \A g \in SharedVertices :
               localFine[p][g] = localFine[Owner(g)][g]
    /\ cpr_pressure_aggregation_ =>
           \A p \in Procs :
               procAt[p] \in {"receiving", "returned"} =>
                   \A g \in SharedVertices :
                       Owner(g) = p => ownerSent[p][g] = localFine[p][g]
    /\ ~cpr_pressure_aggregation_ =>
           \A p \in Procs :
               /\ procAt[p] \in {"idle", "returned"}
               /\ \A g \in SharedVertices : ownerSent[p][g] = 0

\* C15 witness: aggregation mode, all processes back, after two processes
\* added different coarse values to a vector that was not zero
C15_Witness ==
    /\ cpr_pressure_aggregation_
    /\ AllReturnedFromProlong
    /\ localLhs[0] # localLhs[1]
    /\ \E g \in SharedVertices : localFine[Owner(g)][g] # localLhs[Owner(g)] * (g + 1)

SameSequence == \A p, q \in Procs : program[p] = program[q]

AllCallsReturned ==
    \A p \in Procs : procAt[p] = "idle" /\ callsDone[p] = Len(program[p])

SomeoneBlocked == \E p \in Procs : procAt[p] = "inCall"

\* C19: if all processes issue the same sequence of calls, every call
\* returns on every process; if a process issues fewer calls than another,
\* or another call at some place, the run ends with a process blocked in a
\* call for ever.
C19_CollectiveCalls ==
    /\ SameSequence => <>AllCallsReturned
    /\ ~SameSequence => <>[]SomeoneBlocked

\* C19 witness: one process has returned from all the calls of its shorter
\* program while another is inside a call that cannot return
C19_Witness ==
    /\ ~SameSequence
    /\ \E p, q \in Procs :
           /\ procAt[p] = "inCall"
           /\ ~CollectiveComplete(p)
           /\ procAt[q] = "idle"
           /\ callsDone[q] = Len(program[q])
           /\ callsDone[q] >= 1

(***************************************************************************)
(* Claims about the coarse buffers and the coarse operator (SpecTransfer). *)
(***************************************************************************)
\* C26: once createCoarseLevelSystem has run, in either mode and after any
\* number of moveToCoarseLevel, coarse solves and moveToFineLevel, lhs_ has
\* one entry per column of the coarse matrix, rhs_ one entry per row, and
\* the coarse operator wraps the coarse matrix and the coarse communication.
C26_BuffersMatchCoarseMatrix ==
    policyState = "Ready" =>
        /\ DOMAIN lhs_ = 0 .. (coarseLevelMatrix_.M - 1)
        /\ DOMAIN rhs_ = 0 .. (coarseLevelMatrix_.N - 1)
        /\ operator_.mat = coarseLevelMatrix_
        /\ operator_.comm = coarseLevelCommunication_.object

\* C26 witness: aggregation mode, two fine vertices in one aggregate, after
\* a prolongation
C26_Witness ==
    /\ policyState = "Ready"
    /\ cpr_pressure_aggregation_
    /\ lastOp = "moveToFineLevel"
    /\ levelOperator.N = 2
    /\ coarseLevelMatrix_.N = 1
    /\ DOMAIN lhs_ = {0}

(***************************************************************************)
(* Claims about the caller's data (Spec).                                  *)
(***************************************************************************)
\* C29: no step changes the matrix of the fine operator the caller handed
\* to the constructor; the scaled matrix is another matrix, which the
\* operator the two-level method works on wraps; and after every apply the
\* caller's defect is the defect the caller handed in.
C29_CallerDataUnchanged ==
    /\ [][fineMatrix' = fineMatrix]_vars
    /\ [](phase = "constructed" =>
            /\ scaledMatrix = scaleMatrixQuasiImpes(fineMatrix, COMPONENT_INDEX)
            /\ levelOperator = scaledMatrix)
    /\ [](applyCalls >= 1 => d = dGiven)

\* C29 witness: after an apply whose scaling changed the copy of the
\* defect, on an instance whose scaled matrix differs from the fine matrix
C29_Witness ==
    /\ phase = "constructed"
    /\ applyCalls >= 1
    /\ scaledMatrix # fineMatrix
    /\ scaledD # dGiven

(***************************************************************************)
(* Claims about the preconditioner of the coarse solver (SpecSolver).      *)
(***************************************************************************)
\* C24: from the construction of the coarse solver on, exactly one of amg_
\* and smoother_ holds an object, amg_ if and only if cpr_use_amg_; every
\* apply uses that object as its preconditioner; and no step after the
\* construction builds, replaces or drops either.
C24_PreconditionerBuiltOnce ==
    /\ [](phase = "constructed" =>
            /\ (amg_ # NullPtr) # (smoother_ # NullPtr)
            /\ (amg_ # NullPtr) <=> param_.cpr_use_amg_
            /\ coarseCall # None =>
                   coarseCall.result.solver.prec =
                       (IF param_.cpr_use_amg_ THEN amg_ ELSE smoother_))
    /\ [][phase = "constructed" => (amg_' = amg_ /\ smoother_' = smoother_)]_vars

\* C24 witness: a solver built without AMG after an apply that used the
\* smoother
C24_Witness ==
    /\ phase = "constructed"
    /\ ~param_.cpr_use_amg_
    /\ coarseCall # None
    /\ coarseCall.result.solver.prec = smoother_
    /\ smoother_ # NullPtr

(***************************************************************************)
(* Claims about the ownership of the coarse communication (SpecOwnership). *)
(***************************************************************************)
Holders(k) == {i \in Instances : instState[i] = "live" /\ held[i] = k}

\* C21: in direct mode every coarse communication held is object 0, the
\* caller's communication, which stays alive whatever is created, cloned
\* and destroyed; in aggregation mode every coarse communication held is an
\* object of its own, never object 0, alive exactly as long as a live
\* instance holds it and destroyed once none does.
C21_CoarseCommunicationOwnership ==
    /\ commAlive[0] = "alive"
    /\ \A i \in Instances :
           (instState[i] = "live" /\ held[i] # 0) =>
               IF cpr_pressure_aggregation_
               THEN objectOf(cpr_pressure_aggregation_, held[i]) # 0
               ELSE objectOf(cpr_pressure_aggregation_, held[i]) = 0
    /\ cpr_pressure_aggregation_ =>
           \A k \in ControlBlocks :
               /\ k <= nCreated =>
                      commAlive[k] = (IF Holders(k) # {} THEN "alive" ELSE "destroyed")
               /\ k > nCreated => commAlive[k] = "unbuilt"
               /\ useCount[k] = Cardinality(Holders(k))

\* C21 witness: aggregation mode; the instance that created the coarse
\* communication is destroyed and a clone still holds the object, alive
C21_Witness ==
    /\ cpr_pressure_aggregation_
    /\ instState[0] = "destroyed"
    /\ \E j \in Instances : j # 0 /\ instState[j] = "live" /\ held[j] = 1
    /\ commAlive[1] = "alive"
    /\ \E j \in Instances : j # 0 /\ instState[j] = "destroyed"

(***************************************************************************)
(* Claims about the global lookup tables (SpecSetup).                      *)
(***************************************************************************)
\* C25: in aggregation mode, when createCoarseLevelSystem has returned, the
\* coarse communication holds no global lookup if the coarse matrix has
\* fewer rows than coarsenTarget(), and holds one if it has as many or more.
C25_CoarseLookupReleasedBelowTarget ==
    (cpr_pressure_aggregation_ /\ setupReturned) =>
        (~coarseLookup <=> coarseRowsOf(setupArgs) < setupArgs.coarsenTarget)

\* C25 witness: a returned call in aggregation mode whose coarse matrix has
\* exactly coarsenTarget() rows, one or more, and whose lookup is still built
C25_Witness ==
    /\ cpr_pressure_aggregation_
    /\ setupReturned
    /\ coarseRowsOf(setupArgs) = setupArgs.coarsenTarget
    /\ setupArgs.coarsenTarget >= 1
    /\ coarseLookup

\* the statement named step runs in this step
Runs(step) == step \notin stepsDone /\ step \in stepsDone'

\* C30: in aggregation mode the fine communication's lookup is held when
\* coarsen runs and when the sparsity pattern is built, and is freed only
\* after the pattern is built; the builds and frees of the call are equal
\* in number, so none is held at the return; the coarse communication's
\* lookup is built after coarsen has run and is held when the aggregates
\* are published; the coarse entries are computed after the pattern is built.
C30_LookupProtocol ==
    /\ [][cpr_pressure_aggregation_ =>
            /\ Runs("coarsen") => fineLookup
            /\ Runs("buildCoarseSparseMatrix") => fineLookup
            /\ Runs("communication_->freeGlobalLookup") =>
                   "buildCoarseSparseMatrix" \in stepsDone
            /\ Runs("coarseLevelCommunication_->buildGlobalLookup") =>
                   ("coarsen" \in stepsDone /\ "publish" \notin stepsDone)
            /\ Runs("publish") => coarseLookup
            /\ Runs("calculateCoarseEntries") =>
                   "buildCoarseSparseMatrix" \in stepsDone]_vars
    /\ []((cpr_pressure_aggregation_ /\ setupReturned) =>
            /\ ~fineLookup
            /\ fineLookupCalls.build = fineLookupCalls.free
            /\ fineLookupCalls.build >= 1)

\* C30 witness: a returned call in aggregation mode that built and freed
\* the fine lookup and computed the coarse entries
C30_Witness ==
    /\ cpr_pressure_aggregation_
    /\ setupReturned
    /\ fineLookupCalls = [build |-> 1, free |-> 1]
    /\ "calculateCoarseEntries" \in stepsDone
    /\ "publish" \in stepsDone

(***************************************************************************)
(* Claims about the report-step timer (SpecTimer) and the main loop of the *)
(* simulator (SpecRun).                                                    *)
(***************************************************************************)
\* C23: the step number starts at 0 and every ++timer raises it by exactly
\* one; done() holds exactly when the step number is the number of report
\* steps (so not after setCurrentStepNum(0) with one step or more); the
\* elapsed time is always the sum of the lengths of the steps before the
\* current one: 0 at step 0 and the total time when done.
C23_TimerProgression ==
    /\ current_step_ = 0
    /\ [][timerOp' = "++" =>
            /\ current_step_' = current_step_ + 1
            /\ current_time_' = current_time_ + timesteps_[current_step_ + 1]]_vars
    /\ [](/\ current_step_ \in 0 .. numSteps
          /\ done <=> current_step_ = Len(timesteps_)
          /\ (timerOp = "setCurrentStepNum" /\ current_step_ = 0 /\ numSteps >= 1) => ~done
          /\ current_time_ = SumFirst(timesteps_, current_step_)
          /\ current_step_ = 0 => current_time_ = 0
          /\ done => current_time_ = total_time_)

\* C23 witness: a timer of two or more steps of different lengths, done
\* after its last ++
C23_Witness ==
    /\ numSteps >= 2
    /\ timesteps_[1] # timesteps_[2]
    /\ timerOp = "++"
    /\ done

\* the solves and writes of the iterations for the report steps k .. n - 1
RECURSIVE ExpectedLog(_, _)
ExpectedLog(k, n) ==
    IF k >= n THEN << >>
    ELSE <<<<"step", k>>, <<"writeTimeStep", k + 1>>>> \o ExpectedLog(k + 1, n)

\* C27: run returns; when it has, the timer is done, the loop has run once
\* for every report step from the one the timer started at, each iteration
\* has solved its step, then advanced the timer by one, then written the
\* state under the new step number, and report.converged is true.
C27_RunAdvancesToDone ==
    /\ <>(runPc = "returned")
    /\ [](iterations = current_step_ - runStart)
    /\ [](runPc = "returned" =>
            /\ done
            /\ iterations = numSteps - runStart
            /\ report.converged
            /\ runLog = (IF runStart = 0 /\ numSteps > 0
                         THEN <<<<"writeTimeStep", 0>>>> ELSE << >>)
                        \o ExpectedLog(runStart, numSteps))

\* C27 witness: run has returned after two iterations or more, started from
\* a later report step than the first
C27_Witness ==
    /\ runPc = "returned"
    /\ runStart >= 1
    /\ iterations >= 2

(***************************************************************************)
(* Claims about the unsupported keywords (SpecKeywords).                   *)
(***************************************************************************)
\* the names written in the list
WrittenNames ==
    {unsupportedTokens[k] : k \in {j \in DOMAIN unsupportedTokens :
                                        unsupportedTokens[j] # ","}}

WarningsFor(i) == {k \in DOMAIN warnings : warnings[k][1] = i}

\* C28: when checkKeywords has run through the deck, every keyword whose
\* name is written in the list has got one warning and every other keyword
\* none.
C28_WarnsForWrittenNames ==
    deckIdx = Len(deck) =>
        \A i \in DOMAIN deck :
            Cardinality(WarningsFor(i)) = (IF deck[i] \in WrittenNames THEN 1 ELSE 0)

\* what the code does: one warning for every keyword whose name is an
\* element of the set the initialiser denotes, none for the others
C28_WarnsForSetElements ==
    deckIdx = Len(deck) =>
        \A i \in DOMAIN deck :
            Cardinality(WarningsFor(i)) =
                (IF deck[i] \in unsupported_keywords THEN 1 ELSE 0)

=============================================================================
